---- MODULE Spec2Model ----
(***************************************************************************)
(* Verification model of the chia-wallet-sdk condition codec               *)
(* (src/src/condition.rs) and of the delegated-conditions puzzle layer     *)
(* (crates/chia-sdk-driver/src/layers/p2_delegated_conditions_layer.rs),   *)
(* and of the offer compression codec                                      *)
(* (src/src/spends/puzzles/offer/offer_compression.rs), of the key stores   *)
(* (src/src/key_store.rs, src/src/stores, src/src/sqlite), of the          *)
(* certificate loader (src/src/ssl.rs) and of the peer lookup              *)
(* (crates/chia-sdk-client/src/network.rs).                                *)
(*                                                                         *)
(* CLVM trees are modelled structurally: an atom is a byte string, a pair  *)
(* has a left and a right tree.  Integers keep their Rust width: a u64 is  *)
(* its 8 big-endian bytes, a u32 its 4 big-endian bytes, so that the       *)
(* minimal-width atom conversion is computed and not assumed.              *)
(***************************************************************************)
EXTENDS Integers, Sequences, FiniteSets, TLC

VARIABLES
    value,      \* the typed value handed to to_clvm: [type, v], type "none" without one
    node,       \* the tree in the allocator: output of to_clvm, input of from_clvm
    decoded,    \* the type from_clvm was called for and its Result: [type, res]
    pc,         \* "start", "encoded" (node built by to_clvm), "tree" (node given), "decoded"
    layer,      \* a P2DelegatedConditionsLayer
    puzzle,     \* the Puzzle handed to parse_puzzle
    parsed,     \* the Result<Option<Self>, DriverError> of parse_puzzle
    lpc,        \* "start" (layer given), "tree" (node holds a puzzle tree),
                \* "puzzle" (Puzzle parsed from node), "parsed"; "idle" when unused
    reveals,    \* the puzzle reveals handed to required_compression_version
    version,    \* the u16 version selected for, or handed to, the compressor
    plain,      \* the bytes handed to compress_offer_bytes
    dictionary, \* the dictionary compress_offer_bytes built
    packed,     \* the bytes handed to decompress_offer_bytes
    unpacked,   \* the run of decompress_offer_bytes: its Result and the steps it took
    opc,        \* "reveals", "selected"; "bytes", "compressed"; "packed" (packed
                \* given); "decompressed"; "idle" when unused
    derivations,    \* SimpleDerivationStore.derivations: the IndexMap, in its order
    requested,      \* the targets of the derive_to_index calls made on it so far
    target,         \* the target of the last of these calls
    rows,           \* the committed rows of the table unhardened_keys, in rowid order
    txs,            \* per caller of UnhardenedKeyStore::derive_to_index: its position,
                    \* its target, the count it read and the rows of its transaction
    writer,         \* the caller whose transaction holds the write lock, 0 for none
    index_is_key,   \* whether the table declares `index` unique
    next_derivation_index,  \* KeyStore::next_derivation_index() of the implementor
    until_index,    \* the argument of the last derive_keys_until call
    derive_keys_calls,      \* the counts derive_keys was called with, in order
    spc,            \* "simple", "sqlite", "trait": the store in use; "idle" when unused
    files,          \* the file system at cert_path and key_path
    certificate,    \* the Result of the last load_ssl_cert call
    loads,          \* the number of load_ssl_cert calls made
    cpc,            \* "ssl" when the certificate loader is in use, else "idle"
    network,        \* the Network: default_port and dns_introducers
    lookup,         \* the call of lookup_all: the introducers queried, the addresses
                    \* gathered and, once it returned, its Result
    npc             \* "lookup" while lookup_all runs, "returned"; "idle" when unused

codecVars == <<value, decoded, pc>>
layerVars == <<layer, puzzle, parsed, lpc>>
offerVars == <<reveals, version, plain, dictionary, packed, unpacked, opc>>
storeVars == <<derivations, requested, target, rows, txs, writer, index_is_key,
               next_derivation_index, until_index, derive_keys_calls, spc>>
sslVars == <<files, certificate, loads, cpc>>
netVars == <<network, lookup, npc>>
vars == <<value, node, decoded, pc, layer, puzzle, parsed, lpc,
          reveals, version, plain, dictionary, packed, unpacked, opc,
          derivations, requested, target, rows, txs, writer, index_is_key,
          next_derivation_index, until_index, derive_keys_calls, spc,
          files, certificate, loads, cpc, network, lookup, npc>>

(***************************************************************************)
(* Bounds of the model.                                                    *)
(***************************************************************************)
\* greatest number of list elements after the head in a tree drawn for decoding
MaxTail == 4
\* greatest number of memos in a constructed CreateCoin::Memos
MaxMemos == 2

(***************************************************************************)
(* The program tree (clvmr allocator nodes).                               *)
(***************************************************************************)
Atom(bytes) == [k |-> "atom", b |-> bytes]
Pair(first, rest) == [k |-> "pair", l |-> first, r |-> rest]
Nil == Atom(<<>>)
IsAtom(n) == n.k = "atom"
IsPair(n) == n.k = "pair"

Rep(byte, len) == [i \in 1..len |-> byte]

\* Result<_, FromClvmError>
Ok(v) == [ok |-> TRUE, v |-> v]
Err(e) == [ok |-> FALSE, err |-> e]

(***************************************************************************)
(* clvm_traits integer atoms.                                              *)
(***************************************************************************)
RECURSIVE StripZeros(_)
StripZeros(bytes) ==
    IF bytes # <<>> /\ bytes[1] = 0 THEN StripZeros(Tail(bytes)) ELSE bytes

\* the conversion without the sign byte
EncodeUnsignedNoSignByte(beBytes) == StripZeros(beBytes)

\* the conversion at the full width of the integer
EncodeUnsignedFullWidth(beBytes) == beBytes

\* ToClvm for u32 / u64: minimal big-endian bytes, a 0x00 in front when the
\* top bit is set so that the atom stays non-negative; zero is the empty atom
EncodeUnsigned(beBytes) ==
    LET s == StripZeros(beBytes)
    IN  IF s # <<>> /\ s[1] >= 128 THEN <<0>> \o s ELSE s

RECURSIVE Incr(_)
Incr(bytes) ==
    IF bytes = <<>> THEN <<>>
    ELSE LET n == Len(bytes)
         IN  IF bytes[n] = 255 THEN Incr(SubSeq(bytes, 1, n - 1)) \o <<0>>
             ELSE SubSeq(bytes, 1, n - 1) \o <<bytes[n] + 1>>

\* two's-complement negation at the width of the byte string
WrappingNeg(bytes) == Incr([i \in 1..Len(bytes) |-> 255 - bytes[i]])

\* FromClvm for u32 / u64 (width in bytes): the atom is read as a signed
\* big-endian number, its magnitude must fit the width, and a negative
\* number comes back as value.wrapping_neg()
DecodeUnsigned(n, width) ==
    IF ~IsAtom(n) THEN Err("ExpectedAtom")
    ELSE LET negative == n.b # <<>> /\ n.b[1] >= 128
             magnitude == StripZeros(IF negative THEN WrappingNeg(n.b) ELSE n.b)
             padded == Rep(0, width - Len(magnitude)) \o magnitude
         IN  IF Len(magnitude) > width THEN Err("WrongAtomLength")
             ELSE Ok(IF negative THEN WrappingNeg(padded) ELSE padded)

\* the 4 big-endian two's-complement bytes of an i32 literal
BE4(m) == << (m \div 16777216) % 256, (m \div 65536) % 256, (m \div 256) % 256, m % 256 >>
I32Bytes(i) == IF i >= 0 THEN BE4(i) ELSE [j \in 1..4 |-> 255 - BE4(-(i + 1))[j]]

RECURSIVE StripSign(_)
StripSign(bytes) ==
    IF Len(bytes) >= 2 /\ ( \/ (bytes[1] = 0 /\ bytes[2] < 128)
                            \/ (bytes[1] = 255 /\ bytes[2] >= 128) )
    THEN StripSign(Tail(bytes))
    ELSE bytes

\* ToClvm for i32: minimal two's-complement bytes; zero is the empty atom
EncodeSigned(beBytes) ==
    LET s == StripSign(beBytes) IN IF s = <<0>> THEN <<>> ELSE s

\* MatchByte::<BYTE>: an atom holding exactly the one byte BYTE (empty for 0)
MatchByte(byte, n) ==
    IF ~IsAtom(n) THEN Err("ExpectedAtom")
    ELSE IF (byte = 0 /\ n.b = <<>>) \/ (byte > 0 /\ n.b = <<byte>>) THEN Ok(byte)
    ELSE Err("Custom")

\* FromClvm for (): the empty atom
DecodeUnit(n) ==
    IF ~IsAtom(n) THEN Err("ExpectedAtom")
    ELSE IF n.b = <<>> THEN Ok(<<>>) ELSE Err("WrongAtomLength")

(***************************************************************************)
(* Field types of the derived impls.                                       *)
(***************************************************************************)
PUBLIC_KEY_SIZE == 48
BYTES32_SIZE == 32

\* the compressed G1 points PublicKey::from_bytes accepts, among the 48-byte
\* strings of the model: the point at infinity and one finite point
InfinityKey == <<192>> \o Rep(0, 47)
FiniteKey == <<151>> \o Rep(241, 47)
PublicKeys == {InfinityKey, FiniteKey}

U64(n) == Rep(0, 4) \o BE4(n)
U32(n) == BE4(n)

\* the variants of Condition<T>: opcode, representation, fields in declaration order
Condition ==
    << [name |-> "Remark", opcode |-> 1, repr |-> "list", fields |-> <<>>],
       [name |-> "AggSigParent", opcode |-> 43, repr |-> "list", fields |-> <<"PublicKey", "Bytes">>],
       [name |-> "AggSigPuzzle", opcode |-> 44, repr |-> "list", fields |-> <<"PublicKey", "Bytes">>],
       [name |-> "AggSigAmount", opcode |-> 45, repr |-> "list", fields |-> <<"PublicKey", "Bytes">>],
       [name |-> "AggSigPuzzleAmount", opcode |-> 46, repr |-> "list", fields |-> <<"PublicKey", "Bytes">>],
       [name |-> "AggSigParentAmount", opcode |-> 47, repr |-> "list", fields |-> <<"PublicKey", "Bytes">>],
       [name |-> "AggSigParentPuzzle", opcode |-> 48, repr |-> "list", fields |-> <<"PublicKey", "Bytes">>],
       [name |-> "AggSigUnsafe", opcode |-> 49, repr |-> "list", fields |-> <<"PublicKey", "Bytes">>],
       [name |-> "AggSigMe", opcode |-> 50, repr |-> "list", fields |-> <<"PublicKey", "Bytes">>],
       [name |-> "CreateCoin", opcode |-> 51, repr |-> "tuple", fields |-> <<"CreateCoin">>],
       [name |-> "ReserveFee", opcode |-> 52, repr |-> "list", fields |-> <<"u64">>],
       [name |-> "CreateCoinAnnouncement", opcode |-> 60, repr |-> "list", fields |-> <<"Bytes">>],
       [name |-> "AssertCoinAnnouncement", opcode |-> 61, repr |-> "list", fields |-> <<"Bytes">>],
       [name |-> "CreatePuzzleAnnouncement", opcode |-> 62, repr |-> "list", fields |-> <<"Bytes">>],
       [name |-> "AssertPuzzleAnnouncement", opcode |-> 63, repr |-> "list", fields |-> <<"Bytes">>],
       [name |-> "AssertConcurrentSpend", opcode |-> 64, repr |-> "list", fields |-> <<"Bytes32">>],
       [name |-> "AssertConcurrentPuzzle", opcode |-> 65, repr |-> "list", fields |-> <<"Bytes32">>],
       [name |-> "AssertMyCoinId", opcode |-> 70, repr |-> "list", fields |-> <<"Bytes32">>],
       [name |-> "AssertMyParentId", opcode |-> 71, repr |-> "list", fields |-> <<"Bytes32">>],
       [name |-> "AssertMyPuzzleHash", opcode |-> 72, repr |-> "list", fields |-> <<"Bytes32">>],
       [name |-> "AssertMyAmount", opcode |-> 73, repr |-> "list", fields |-> <<"u64">>],
       [name |-> "AssertMyBirthSeconds", opcode |-> 74, repr |-> "list", fields |-> <<"u64">>],
       [name |-> "AssertMyBirthHeight", opcode |-> 75, repr |-> "list", fields |-> <<"u32">>],
       [name |-> "AssertEphemeral", opcode |-> 76, repr |-> "list", fields |-> <<>>],
       [name |-> "AssertSecondsRelative", opcode |-> 80, repr |-> "list", fields |-> <<"u64">>],
       [name |-> "AssertSecondsAbsolute", opcode |-> 81, repr |-> "list", fields |-> <<"u64">>],
       [name |-> "AssertHeightRelative", opcode |-> 82, repr |-> "list", fields |-> <<"u32">>],
       [name |-> "AssertHeightAbsolute", opcode |-> 83, repr |-> "list", fields |-> <<"u32">>],
       [name |-> "AssertBeforeSecondsRelative", opcode |-> 84, repr |-> "list", fields |-> <<"u64">>],
       [name |-> "AssertBeforeSecondsAbsolute", opcode |-> 85, repr |-> "list", fields |-> <<"u64">>],
       [name |-> "AssertBeforeHeightRelative", opcode |-> 86, repr |-> "list", fields |-> <<"u32">>],
       [name |-> "AssertBeforeHeightAbsolute", opcode |-> 87, repr |-> "list", fields |-> <<"u32">>],
       [name |-> "Softfork", opcode |-> 90, repr |-> "tuple", fields |-> <<"u64", "T">>] >>

\* the variants of the raw enum CreateCoin, in declaration order
CreateCoin ==
    << [name |-> "Normal", repr |-> "list", fields |-> <<"Bytes32", "u64">>],
       [name |-> "Memos", repr |-> "list", fields |-> <<"Bytes32", "u64", "Vec<Bytes32>">>] >>

\* the variants of the raw enum CatCondition<T>, in declaration order
CatCondition ==
    << [name |-> "Normal", repr |-> "tuple", fields |-> <<"Condition">>],
       [name |-> "RunTail", repr |-> "tuple", fields |-> <<"RunTail">>] >>

Variant(table, name) == CHOOSE i \in 1..Len(table) : table[i].name = name

(***************************************************************************)
(* ToClvm.                                                                 *)
(***************************************************************************)
RECURSIVE EncodeField(_, _), EncodeFields(_, _, _), EncodeVec(_, _)

\* the list with the marker written as the byte 142
RunTailToClvmMarker142(rt) ==
    Pair(Atom(<<51>>), Pair(Nil, Pair(Atom(<<142>>), Pair(rt.program, Pair(rt.solution, Nil)))))

\* impl ToClvm for RunTail<T>: clvm_list!(51, (), -113, program, solution)
RunTailToClvm(rt) ==
    Pair(Atom(EncodeSigned(I32Bytes(51))),
      Pair(Nil,
        Pair(Atom(EncodeSigned(I32Bytes(-113))),
          Pair(rt.program,
            Pair(rt.solution, Nil)))))

\* derived ToClvm of an enum with discriminants: (opcode . fields)
TaggedToClvm(table, v) ==
    LET var == table[Variant(table, v.variant)]
    IN  Pair(Atom(EncodeUnsigned(U64(var.opcode))), EncodeFields(var.fields, v.fields, var.repr))

\* derived ToClvm of a raw enum: the fields alone
RawToClvm(table, v) ==
    LET var == table[Variant(table, v.variant)]
    IN  EncodeFields(var.fields, v.fields, var.repr)

EncodeVec(ty, items) ==
    IF items = <<>> THEN Nil
    ELSE Pair(EncodeField(ty, Head(items)), EncodeVec(ty, Tail(items)))

EncodeField(ty, v) ==
    CASE ty = "PublicKey" -> Atom(v)
      [] ty = "Bytes" -> Atom(v)
      [] ty = "Bytes32" -> Atom(v)
      [] ty = "u64" -> Atom(EncodeUnsigned(v))
      [] ty = "u32" -> Atom(EncodeUnsigned(v))
      [] ty = "T" -> v
      [] ty = "Vec<Bytes32>" -> EncodeVec("Bytes32", v)
      [] ty = "CreateCoin" -> RawToClvm(CreateCoin, v)
      [] ty = "Condition" -> TaggedToClvm(Condition, v)
      [] ty = "RunTail" -> RunTailToClvm(v)

\* list: nil-terminated; tuple: the last field is the tail
EncodeFields(types, vals, repr) ==
    IF types = <<>> THEN Nil
    ELSE IF Len(types) = 1 /\ repr = "tuple" THEN EncodeField(types[1], vals[1])
    ELSE Pair(EncodeField(types[1], vals[1]), EncodeFields(Tail(types), Tail(vals), repr))

ConditionToClvm(c) == TaggedToClvm(Condition, c)
CreateCoinToClvm(cc) == RawToClvm(CreateCoin, cc)
CatConditionToClvm(cc) == RawToClvm(CatCondition, cc)

(***************************************************************************)
(* FromClvm.                                                               *)
(***************************************************************************)
RECURSIVE DecodeField(_, _), DecodeFields(_, _, _), DecodeVec(_, _), RawFrom(_, _, _)

\* a RunTail read without its two markers, as the list (51 program solution)
RunTailFromClvmUnmarked(n) ==
    IF ~IsPair(n) THEN Err("ExpectedPair")
    ELSE IF ~MatchByte(51, n.l).ok THEN MatchByte(51, n.l)
    ELSE IF ~IsPair(n.r) THEN Err("ExpectedPair")
    ELSE IF ~IsPair(n.r.r) THEN Err("ExpectedPair")
    ELSE IF ~DecodeUnit(n.r.r.r).ok THEN DecodeUnit(n.r.r.r)
    ELSE Ok([program |-> n.r.l, solution |-> n.r.r.l])

\* impl FromClvm for RunTail<T>:
\* match_list!(MatchByte::<51>, (), MatchByte::<142>, T, T)
RunTailFromClvm(n) ==
    IF ~IsPair(n) THEN Err("ExpectedPair")
    ELSE IF ~MatchByte(51, n.l).ok THEN MatchByte(51, n.l)
    ELSE IF ~IsPair(n.r) THEN Err("ExpectedPair")
    ELSE IF ~DecodeUnit(n.r.l).ok THEN DecodeUnit(n.r.l)
    ELSE IF ~IsPair(n.r.r) THEN Err("ExpectedPair")
    ELSE IF ~MatchByte(142, n.r.r.l).ok THEN MatchByte(142, n.r.r.l)
    ELSE IF ~IsPair(n.r.r.r) THEN Err("ExpectedPair")
    ELSE IF ~IsPair(n.r.r.r.r) THEN Err("ExpectedPair")
    ELSE IF ~DecodeUnit(n.r.r.r.r.r).ok THEN DecodeUnit(n.r.r.r.r.r)
    ELSE Ok([program |-> n.r.r.r.l, solution |-> n.r.r.r.r.l])

\* an unknown discriminant falls through to the variant declared first
TaggedFromClvmFallThrough(table, n) ==
    IF ~IsPair(n) THEN Err("ExpectedPair")
    ELSE LET d == DecodeUnsigned(n.l, 8)
         IN  IF ~d.ok THEN d
             ELSE LET var == IF \A i \in 1..Len(table) : U64(table[i].opcode) # d.v THEN table[1]
                             ELSE table[CHOOSE i \in 1..Len(table) : U64(table[i].opcode) = d.v]
                      f == DecodeFields(var.fields, n.r, var.repr)
                  IN  IF f.ok THEN Ok([variant |-> var.name, fields |-> f.v]) ELSE f

\* derived FromClvm of an enum with discriminants: the head is read as the
\* u64 discriminant, an unknown discriminant is an error
TaggedFromClvm(table, n) ==
    IF ~IsPair(n) THEN Err("ExpectedPair")
    ELSE LET d == DecodeUnsigned(n.l, 8)
         IN  IF ~d.ok THEN d
             ELSE IF \A i \in 1..Len(table) : U64(table[i].opcode) # d.v THEN Err("Custom")
             ELSE LET var == table[CHOOSE i \in 1..Len(table) : U64(table[i].opcode) = d.v]
                      f == DecodeFields(var.fields, n.r, var.repr)
                  IN  IF f.ok THEN Ok([variant |-> var.name, fields |-> f.v]) ELSE f

\* only the variant declared first is tried
RawFromFirstOnly(table, i, n) ==
    LET f == DecodeFields(table[1].fields, n, table[1].repr)
    IN  IF f.ok THEN Ok([variant |-> table[1].name, fields |-> f.v]) ELSE f

\* derived FromClvm of a raw enum: the variants are tried in declaration
\* order from the i-th on, the first that decodes is the result
RawFrom(table, i, n) ==
    IF i > Len(table) THEN Err("Custom")
    ELSE LET f == DecodeFields(table[i].fields, n, table[i].repr)
         IN  IF f.ok THEN Ok([variant |-> table[i].name, fields |-> f.v])
             ELSE RawFrom(table, i + 1, n)

RawFromClvm(table, n) == RawFrom(table, 1, n)

\* FromClvm for Vec<T>: a nil-terminated list
DecodeVec(ty, n) ==
    IF IsAtom(n) THEN (IF n.b = <<>> THEN Ok(<<>>) ELSE Err("WrongAtomLength"))
    ELSE LET h == DecodeField(ty, n.l)
         IN  IF ~h.ok THEN h
             ELSE LET t == DecodeVec(ty, n.r)
                  IN  IF t.ok THEN Ok(<<h.v>> \o t.v) ELSE t

DecodeField(ty, n) ==
    CASE ty = "PublicKey" ->
            IF ~IsAtom(n) THEN Err("ExpectedAtom")
            ELSE IF Len(n.b) # PUBLIC_KEY_SIZE THEN Err("WrongAtomLength")
            ELSE IF n.b \notin PublicKeys THEN Err("Custom")
            ELSE Ok(n.b)
      [] ty = "Bytes" -> IF IsAtom(n) THEN Ok(n.b) ELSE Err("ExpectedAtom")
      [] ty = "Bytes32" ->
            IF ~IsAtom(n) THEN Err("ExpectedAtom")
            ELSE IF Len(n.b) # BYTES32_SIZE THEN Err("WrongAtomLength")
            ELSE Ok(n.b)
      [] ty = "u64" -> DecodeUnsigned(n, 8)
      [] ty = "u32" -> DecodeUnsigned(n, 4)
      [] ty = "T" -> Ok(n)
      [] ty = "Vec<Bytes32>" -> DecodeVec("Bytes32", n)
      [] ty = "CreateCoin" -> RawFromClvm(CreateCoin, n)
      [] ty = "Condition" -> TaggedFromClvm(Condition, n)
      [] ty = "RunTail" -> RunTailFromClvm(n)

\* list: every field is a list element and the list ends in nil;
\* tuple: the last field is decoded from the tail
DecodeFields(types, n, repr) ==
    IF types = <<>> THEN DecodeUnit(n)
    ELSE IF Len(types) = 1 /\ repr = "tuple" THEN
        LET h == DecodeField(types[1], n) IN IF h.ok THEN Ok(<<h.v>>) ELSE h
    ELSE IF ~IsPair(n) THEN Err("ExpectedPair")
    ELSE LET h == DecodeField(types[1], n.l)
         IN  IF ~h.ok THEN h
             ELSE LET t == DecodeFields(Tail(types), n.r, repr)
                  IN  IF t.ok THEN Ok(<<h.v>> \o t.v) ELSE t

ConditionFromClvm(n) == TaggedFromClvm(Condition, n)
CreateCoinFromClvm(n) == RawFromClvm(CreateCoin, n)
CatConditionFromClvm(n) == RawFromClvm(CatCondition, n)

(***************************************************************************)
(* The values and trees the codec is exercised on.                         *)
(***************************************************************************)
BytesValues == {<<>>, <<1>>, <<0, 255>>}
Bytes32Values == {Rep(0, BYTES32_SIZE), Rep(1, BYTES32_SIZE)}
\* 0, 1, 128, 143, 2^63 and u64::MAX
U64Values == {Rep(0, 8), U64(1), U64(128), U64(143), <<128>> \o Rep(0, 7), Rep(255, 8)}
\* 0, 255, 2^31 and u32::MAX
U32Values == {Rep(0, 4), U32(255), <<128, 0, 0, 0>>, Rep(255, 4)}
\* NodePtr values of the generic parameter T
TValues == {Nil, Atom(<<1>>), Pair(Atom(<<1>>), Nil), Pair(Nil, Atom(<<2>>))}

RECURSIVE SeqsUpTo(_, _)
SeqsUpTo(S, n) ==
    IF n = 0 THEN {<<>>}
    ELSE LET shorter == SeqsUpTo(S, n - 1)
         IN  shorter \cup {<<x>> \o q : x \in S, q \in {r \in shorter : Len(r) = n - 1}}

RECURSIVE FieldValues(_), FieldTuples(_)
\* the values of the i-th variant of an enum
VariantValues(table, i) ==
    {[variant |-> table[i].name, fields |-> f] : f \in FieldTuples(table[i].fields)}

FieldValues(ty) ==
    CASE ty = "PublicKey" -> PublicKeys
      [] ty = "Bytes" -> BytesValues
      [] ty = "Bytes32" -> Bytes32Values
      [] ty = "u64" -> U64Values
      [] ty = "u32" -> U32Values
      [] ty = "T" -> TValues
      [] ty = "Vec<Bytes32>" -> SeqsUpTo(Bytes32Values, MaxMemos)
      [] ty = "CreateCoin" -> VariantValues(CreateCoin, 1) \cup VariantValues(CreateCoin, 2)
      [] ty = "RunTail" -> [program : TValues, solution : TValues]

FieldTuples(types) ==
    IF types = <<>> THEN {<<>>}
    ELSE {<<x>> \o q : x \in FieldValues(Head(types)), q \in FieldTuples(Tail(types))}

Types == {"Condition", "CreateCoin", "CatCondition", "RunTail"}

ToClvm(ty, v) ==
    CASE ty = "Condition" -> ConditionToClvm(v)
      [] ty = "CreateCoin" -> CreateCoinToClvm(v)
      [] ty = "CatCondition" -> CatConditionToClvm(v)
      [] ty = "RunTail" -> RunTailToClvm(v)

FromClvm(ty, n) ==
    CASE ty = "Condition" -> ConditionFromClvm(n)
      [] ty = "CreateCoin" -> CreateCoinFromClvm(n)
      [] ty = "CatCondition" -> CatConditionFromClvm(n)
      [] ty = "RunTail" -> RunTailFromClvm(n)

\* heads of the trees drawn for decoding: opcodes 51, 90, 1, the non-minimal
\* 51, the undeclared 2, nil, a 9-byte atom and a pair
Heads ==
    {Atom(<<51>>), Atom(<<90>>), Atom(<<1>>), Atom(<<0, 51>>), Atom(<<2>>),
     Nil, Atom(Rep(1, 9)), Pair(Atom(<<51>>), Nil)}
\* list elements: nil, -113 (0x8f), 142 (0x8e), a 32-byte id, a one-byte atom,
\* a list of one id
Elems ==
    {Nil, Atom(<<143>>), Atom(<<142>>), Atom(Rep(0, BYTES32_SIZE)), Atom(<<1>>),
     Pair(Atom(Rep(1, BYTES32_SIZE)), Nil)}
Terminators == {Nil, Atom(<<1>>)}

RECURSIVE ListOf(_, _)
ListOf(items, end) == IF items = <<>> THEN end ELSE Pair(Head(items), ListOf(Tail(items), end))

Trees == {ListOf(<<h>> \o q, e) : h \in Heads, q \in SeqsUpTo(Elems, MaxTail), e \in Terminators}

NoValue == [type |-> "none"]
\* no layer was constructed: the puzzle tree was given
NoLayer == [public_key |-> <<>>]
\* no version was chosen: the packed bytes were given
NoVersion == -1

(***************************************************************************)
(* The codec as a state machine: a value is encoded into the allocator,    *)
(* or a tree is given, and the tree is decoded as one of the types.        *)
(***************************************************************************)
InitLayerIdle ==
    /\ layer = NoLayer
    /\ puzzle = [curried |-> FALSE, ptr |-> Nil]
    /\ parsed = NoValue
    /\ lpc = "idle"

InitOfferIdle ==
    /\ reveals = <<>>
    /\ version = NoVersion
    /\ plain = <<>>
    /\ dictionary = <<>>
    /\ packed = <<>>
    /\ unpacked = NoValue
    /\ opc = "idle"

\* no file at the path
NoFile == [exists |-> FALSE]

InitStoresIdle ==
    /\ derivations = <<>>
    /\ requested = {}
    /\ target = 0
    /\ rows = <<>>
    /\ txs = <<>>
    /\ writer = 0
    /\ index_is_key = FALSE
    /\ next_derivation_index = 0
    /\ until_index = 0
    /\ derive_keys_calls = <<>>
    /\ spc = "idle"

InitSslIdle ==
    /\ files = [cert_path |-> NoFile, key_path |-> NoFile]
    /\ certificate = NoValue
    /\ loads = 0
    /\ cpc = "idle"

InitNetworkIdle ==
    /\ network = [default_port |-> 0, dns_introducers |-> <<>>]
    /\ lookup = NoValue
    /\ npc = "idle"

\* the components that are no codec: none is in use
InitOthersIdle ==
    /\ InitStoresIdle
    /\ InitSslIdle
    /\ InitNetworkIdle

\* every constructible value of the four types, within the field values above
InitValue ==
    \/ \E i \in 1..Len(Condition) : \E c \in VariantValues(Condition, i) :
          \/ value = [type |-> "Condition", v |-> c]
          \/ value = [type |-> "CatCondition", v |-> [variant |-> "Normal", fields |-> <<c>>]]
    \/ \E cc \in FieldValues("CreateCoin") : value = [type |-> "CreateCoin", v |-> cc]
    \/ \E rt \in FieldValues("RunTail") :
          \/ value = [type |-> "RunTail", v |-> rt]
          \/ value = [type |-> "CatCondition", v |-> [variant |-> "RunTail", fields |-> <<rt>>]]

Init ==
    /\ \/ /\ InitValue
          /\ node = Nil
          /\ pc = "start"
       \/ /\ value = NoValue
          /\ node \in Trees
          /\ pc = "tree"
    /\ decoded = NoValue
    /\ InitLayerIdle
    /\ InitOfferIdle
    /\ InitOthersIdle

\* value.to_ptr(a)
ToPtr(ty) ==
    /\ pc = "start"
    /\ value.type = ty
    /\ node' = ToClvm(ty, value.v)
    /\ pc' = "encoded"
    /\ UNCHANGED <<value, decoded, layerVars, offerVars, storeVars, sslVars, netVars>>

\* T::from_ptr(a, node)
FromPtr(ty) ==
    /\ pc \in {"encoded", "tree"}
    /\ decoded' = [type |-> ty, res |-> FromClvm(ty, node)]
    /\ pc' = "decoded"
    /\ UNCHANGED <<value, node, layerVars, offerVars, storeVars, sslVars, netVars>>

ConditionToPtr == ToPtr("Condition")
CreateCoinToPtr == ToPtr("CreateCoin")
CatConditionToPtr == ToPtr("CatCondition")
RunTailToPtr == ToPtr("RunTail")
ConditionFromPtr == FromPtr("Condition")
CreateCoinFromPtr == FromPtr("CreateCoin")
CatConditionFromPtr == FromPtr("CatCondition")
RunTailFromPtr == FromPtr("RunTail")

Next ==
    \/ ConditionToPtr
    \/ CreateCoinToPtr
    \/ CatConditionToPtr
    \/ RunTailToPtr
    \/ ConditionFromPtr
    \/ CreateCoinFromPtr
    \/ CatConditionFromPtr
    \/ RunTailFromPtr

Spec == Init /\ [][Next]_vars

(***************************************************************************)
(* Properties of the condition codec.                                      *)
(***************************************************************************)
\* two values of one enum are equal
SameValue(a, b) == a.variant = b.variant /\ a.fields = b.fields

\* the elements of a tree read as a list, and what ends the list
RECURSIVE Elements(_), Terminator(_)
Elements(n) == IF IsPair(n) THEN <<n.l>> \o Elements(n.r) ELSE <<>>
Terminator(n) == IF IsPair(n) THEN Terminator(n.r) ELSE n

\* C1: decoding the tree that encoding a Condition produced succeeds and
\* gives back the Condition that was encoded
C1_ConditionRoundTrip ==
    (pc = "decoded" /\ value.type = "Condition" /\ decoded.type = "Condition")
        => (decoded.res.ok /\ SameValue(decoded.res.v, value.v))

\* a CreateCoin::Memos with no memo, and a u64 with its top bit set, went
\* through encoding and decoding
C1_Witness ==
    /\ pc = "decoded" /\ value.type = "Condition" /\ decoded.type = "Condition"
    /\ decoded.res.ok
    /\ value.v.variant = "CreateCoin"
    /\ value.v.fields[1].variant = "Memos"
    /\ value.v.fields[1].fields[3] = <<>>
    /\ value.v.fields[1].fields[2] = Rep(255, 8)

\* C2: the list RunTail{program, solution} encodes to decodes, as a
\* CatCondition, to CatCondition::RunTail with that program and solution
C2_RunTailDecodesAsRunTail ==
    (/\ pc = "decoded" /\ decoded.type = "CatCondition"
     /\ value.type \in {"RunTail", "CatCondition"}
     /\ (value.type = "CatCondition" => value.v.variant = "RunTail"))
        => LET rt == IF value.type = "RunTail" THEN value.v ELSE value.v.fields[1]
           IN  /\ decoded.res.ok
               /\ decoded.res.v.variant = "RunTail"
               /\ decoded.res.v.fields[1] = rt

\* C3: RunTail{program, solution} encodes as the nil-terminated list of the
\* five elements 51, (), -113 (the one byte 0x8f), program, solution
C3_RunTailEncoding ==
    (pc = "encoded" /\ value.type = "RunTail")
        => /\ Elements(node) = <<Atom(<<51>>), Nil, Atom(<<143>>), value.v.program, value.v.solution>>
           /\ Terminator(node) = Nil

\* a RunTail whose program is a pair has been encoded
C3_Witness ==
    /\ pc = "encoded" /\ value.type = "RunTail"
    /\ IsPair(value.v.program)
    /\ Len(Elements(node)) = 5

\* the tree was given and its head is the one-byte atom 51
Opcode51Tree == pc = "decoded" /\ value = NoValue /\ IsPair(node) /\ node.l = Atom(<<51>>)

\* the second element is the empty list and the third the integer -113
RunTailMarked(n) ==
    /\ Len(Elements(n)) >= 3
    /\ Elements(n)[2] = Nil
    /\ Elements(n)[3] = Atom(<<143>>)

\* C4: an opcode-51 list of the RunTail shape decodes, as a CatCondition, to
\* RunTail exactly when its second element is the empty list and its third
\* the integer -113; an opcode-51 list without that mark is decoded as
\* Condition::CreateCoin or not at all
C4_RunTailExactlyWhenMarked ==
    (Opcode51Tree /\ decoded.type = "CatCondition")
        => /\ (Len(Elements(node)) = 5 /\ Terminator(node) = Nil)
                => ((decoded.res.ok /\ decoded.res.v.variant = "RunTail") <=> RunTailMarked(node))
           /\ (~RunTailMarked(node) /\ decoded.res.ok)
                => (decoded.res.v.variant = "Normal"
                    /\ decoded.res.v.fields[1].variant = "CreateCoin")

\* a sequence of 32-byte ids, and the ids in it
IsIdList(n) ==
    /\ Terminator(n) = Nil
    /\ \A i \in 1..Len(Elements(n)) :
          IsAtom(Elements(n)[i]) /\ Len(Elements(n)[i].b) = BYTES32_SIZE
Ids(n) == [i \in 1..Len(Elements(n)) |-> Elements(n)[i].b]

\* an opcode-51 tree whose puzzle_hash and amount decode has been decoded as a Condition
CreateCoinTree ==
    /\ Opcode51Tree /\ decoded.type = "Condition"
    /\ Len(Elements(node)) >= 3
    /\ DecodeField("Bytes32", Elements(node)[2]).ok
    /\ DecodeField("u64", Elements(node)[3]).ok

DecodedCreateCoin == decoded.res.v.fields[1]

\* a list that ends after puzzle_hash and amount is Normal
CreateCoinNormalCase ==
    (CreateCoinTree /\ Len(Elements(node)) = 3 /\ Terminator(node) = Nil)
        => /\ decoded.res.ok
           /\ DecodedCreateCoin.variant = "Normal"
           /\ DecodedCreateCoin.fields
                = <<Elements(node)[2].b, DecodeField("u64", Elements(node)[3]).v>>

\* a third element that is not a sequence of ids fails
CreateCoinBadMemosCase ==
    (CreateCoinTree /\ Len(Elements(node)) >= 4 /\ ~IsIdList(Elements(node)[4]))
        => ~decoded.res.ok

IsMinimalAtomOf(n, beBytes) ==
    /\ IsAtom(n)
    /\ StripZeros(n.b) = StripZeros(beBytes)
    /\ (n.b # <<>> => n.b[1] < 128)
    /\ (n.b # <<>> /\ n.b[1] = 0) => (Len(n.b) >= 2 /\ n.b[2] >= 128)

\* the list element a payload field of the given type is expected to be
IsFieldElement(ty, v, n) ==
    CASE ty \in {"PublicKey", "Bytes", "Bytes32"} -> n = Atom(v)
      [] ty \in {"u64", "u32"} -> IsMinimalAtomOf(n, v)
      [] ty = "T" -> n = v
      [] ty = "Vec<Bytes32>" -> IsIdList(n) /\ Ids(n) = v

\* the payload fields of a Condition, those of the CreateCoin inside
\* Condition::CreateCoin taken one by one
PayloadTypes(c) ==
    IF c.variant = "CreateCoin"
    THEN CreateCoin[Variant(CreateCoin, c.fields[1].variant)].fields
    ELSE Condition[Variant(Condition, c.variant)].fields
PayloadValues(c) == IF c.variant = "CreateCoin" THEN c.fields[1].fields ELSE c.fields

\* the tree is the nil-terminated list of the opcode and one element per field
IsOpcodeList(c, n) ==
    /\ Terminator(n) = Nil
    /\ Len(Elements(n)) = 1 + Len(PayloadTypes(c))
    /\ Elements(n)[1] = Atom(<<Condition[Variant(Condition, c.variant)].opcode>>)
    /\ \A i \in 1..Len(PayloadTypes(c)) :
          IsFieldElement(PayloadTypes(c)[i], PayloadValues(c)[i], Elements(n)[i + 1])

\* the original statement of C6: every variant encodes as such a list
C6_EveryVariantIsAList ==
    (pc = "encoded" /\ value.type = "Condition") => IsOpcodeList(value.v, node)

\* C6, amended: every variant but Softfork encodes as the nil-terminated
\* list of its opcode atom and one element per payload field in declaration
\* order, integers as minimal-width atoms; Softfork encodes as the opcode,
\* the cost and then rest as the tail of the list, (90 cost . rest)
C6_EveryVariantButSoftforkIsAList ==
    (pc = "encoded" /\ value.type = "Condition")
        => IF value.v.variant = "Softfork"
           THEN /\ IsPair(node) /\ IsPair(node.r)
                /\ node.l = Atom(<<90>>)
                /\ IsMinimalAtomOf(node.r.l, value.v.fields[1])
                /\ node.r.r = value.v.fields[2]
           ELSE IsOpcodeList(value.v, node)

\* an AssertMyAmount of 128 has been encoded: its atom needs two bytes
C6_Witness ==
    /\ pc = "encoded" /\ value.type = "Condition"
    /\ value.v.variant = "AssertMyAmount"
    /\ value.v.fields[1] = U64(128)
    /\ Elements(node) = <<Atom(<<73>>), Atom(<<0, 128>>)>>

\* the head of the tree is an atom that denotes one of the declared opcodes
HeadIsOpcode(n) ==
    /\ IsPair(n) /\ IsAtom(n.l)
    /\ \E i \in 1..Len(Condition) : StripZeros(n.l.b) = <<Condition[i].opcode>>

P2_DELEGATED_CONDITIONS_PUZZLE == Pair(Atom(<<2>>), Pair(Atom(<<16>>), Atom(<<5>>)))
STANDARD_PUZZLE == Pair(Atom(<<2>>), Pair(Atom(<<1>>), Atom(<<11>>)))

\* the tree hash identifies the tree
TreeHash(n) == [tree_hash |-> n]
P2_DELEGATED_CONDITIONS_PUZZLE_HASH == TreeHash(P2_DELEGATED_CONDITIONS_PUZZLE)

\* curried arguments: (c (q . first) rest), ended by 1
RECURSIVE CurryArgs(_, _)
CurryArgs(args, end) ==
    IF args = <<>> THEN end
    ELSE ListOf(<<Atom(<<4>>), Pair(Atom(<<1>>), Head(args)), CurryArgs(Tail(args), end)>>, Nil)

\* ToClvm of P2DelegatedConditionsArgs { public_key }
P2DelegatedConditionsArgsToClvm(args) == CurryArgs(<<Atom(args.public_key)>>, Atom(<<1>>))

\* FromClvm of P2DelegatedConditionsArgs: (c (q . public_key) 1)
P2DelegatedConditionsArgsFromClvm(n) ==
    IF ~IsPair(n) THEN Err("ExpectedPair")
    ELSE IF ~MatchByte(4, n.l).ok THEN MatchByte(4, n.l)
    ELSE IF ~IsPair(n.r) \/ ~IsPair(n.r.l) THEN Err("ExpectedPair")
    ELSE IF ~MatchByte(1, n.r.l.l).ok THEN MatchByte(1, n.r.l.l)
    ELSE IF ~DecodeField("PublicKey", n.r.l.r).ok THEN DecodeField("PublicKey", n.r.l.r)
    ELSE IF ~IsPair(n.r.r) THEN Err("ExpectedPair")
    ELSE IF ~MatchByte(1, n.r.r.l).ok THEN MatchByte(1, n.r.r.l)
    ELSE IF ~DecodeUnit(n.r.r.r).ok THEN DecodeUnit(n.r.r.r)
    ELSE Ok([public_key |-> n.r.l.r.b])

\* ToClvm of CurriedProgram { program, args }: (a (q . program) args)
CurriedProgramToClvm(program, args) ==
    ListOf(<<Atom(<<2>>), Pair(Atom(<<1>>), program), args>>, Nil)

\* Puzzle::parse: a tree of the shape (a (q . program) args) is a curried
\* puzzle with the tree hash of program as its mod hash, any other is raw
PuzzleParse(n) ==
    IF /\ IsPair(n) /\ n.l = Atom(<<2>>)
       /\ IsPair(n.r) /\ IsPair(n.r.l) /\ n.r.l.l = Atom(<<1>>)
       /\ IsPair(n.r.r) /\ n.r.r.r = Nil
    THEN [curried |-> TRUE, mod_hash |-> TreeHash(n.r.l.r), args |-> n.r.r.l]
    ELSE [curried |-> FALSE, ptr |-> n]

\* Result<Option<Self>, DriverError>
OkNone == [ok |-> TRUE, some |-> FALSE]
OkSome(l) == [ok |-> TRUE, some |-> TRUE, layer |-> l]
DriverErrorFromClvm(e) == [ok |-> FALSE, err |-> [kind |-> "FromClvm", source |-> e]]

\* construct_puzzle built on the standard puzzle
ConstructPuzzleStandardTemplate(l) ==
    CurriedProgramToClvm(STANDARD_PUZZLE, P2DelegatedConditionsArgsToClvm([public_key |-> l.public_key]))

\* P2DelegatedConditionsLayer::construct_puzzle
ConstructPuzzle(l) ==
    CurriedProgramToClvm(P2_DELEGATED_CONDITIONS_PUZZLE,
                         P2DelegatedConditionsArgsToClvm([public_key |-> l.public_key]))

\* parse_puzzle decoding the arguments before it looks at the mod hash
ParsePuzzleArgsFirst(p) ==
    IF ~p.curried THEN OkNone
    ELSE LET args == P2DelegatedConditionsArgsFromClvm(p.args)
         IN  IF ~args.ok THEN DriverErrorFromClvm(args.err)
             ELSE IF p.mod_hash # P2_DELEGATED_CONDITIONS_PUZZLE_HASH THEN OkNone
             ELSE OkSome([public_key |-> args.v.public_key])

\* parse_puzzle taking arguments that do not decode for another layer's
ParsePuzzleLenient(p) ==
    IF ~p.curried THEN OkNone
    ELSE IF p.mod_hash # P2_DELEGATED_CONDITIONS_PUZZLE_HASH THEN OkNone
    ELSE LET args == P2DelegatedConditionsArgsFromClvm(p.args)
         IN  IF ~args.ok THEN OkNone
             ELSE OkSome([public_key |-> args.v.public_key])

\* P2DelegatedConditionsLayer::parse_puzzle
ParsePuzzle(p) ==
    IF ~p.curried THEN OkNone
    ELSE IF p.mod_hash # P2_DELEGATED_CONDITIONS_PUZZLE_HASH THEN OkNone
    ELSE LET args == P2DelegatedConditionsArgsFromClvm(p.args)
         IN  IF ~args.ok THEN DriverErrorFromClvm(args.err)
             ELSE OkSome([public_key |-> args.v.public_key])

\* greatest number of curried arguments in a puzzle tree drawn for parsing
MaxArgs == 2

\* curried arguments: the two keys, a 48-byte atom that is no key, a 32-byte
\* atom, nil and a pair
ArgValues ==
    {Atom(InfinityKey), Atom(FiniteKey), Atom(Rep(0, PUBLIC_KEY_SIZE)),
     Atom(Rep(0, BYTES32_SIZE)), Nil, Pair(Atom(InfinityKey), Nil)}
ArgTrees ==
    {CurryArgs(q, e) : q \in SeqsUpTo(ArgValues, MaxArgs), e \in {Atom(<<1>>), Nil}}
        \cup {ListOf(<<Atom(InfinityKey)>>, Nil)}
Programs == {P2_DELEGATED_CONDITIONS_PUZZLE, STANDARD_PUZZLE, Nil}
\* curried puzzles, and trees that are not curried: a template alone, a
\* quoted template without arguments, a curried puzzle with a second tail
PuzzleTrees ==
    {CurriedProgramToClvm(prog, a) : prog \in Programs, a \in ArgTrees}
        \cup Programs
        \cup {ListOf(<<Atom(<<2>>), Pair(Atom(<<1>>), P2_DELEGATED_CONDITIONS_PUZZLE)>>, Nil),
              ListOf(<<Atom(<<2>>), Pair(Atom(<<1>>), P2_DELEGATED_CONDITIONS_PUZZLE),
                       P2DelegatedConditionsArgsToClvm([public_key |-> FiniteKey])>>, Atom(<<1>>))}

InitCodecIdle ==
    /\ value = NoValue
    /\ decoded = NoValue
    /\ pc = "idle"

InitLayer ==
    /\ \/ /\ layer \in [public_key : PublicKeys]
          /\ node = Nil
          /\ lpc = "start"
       \/ /\ layer = NoLayer
          /\ node \in PuzzleTrees
          /\ lpc = "tree"
    /\ puzzle = [curried |-> FALSE, ptr |-> Nil]
    /\ parsed = NoValue
    /\ InitCodecIdle
    /\ InitOfferIdle
    /\ InitOthersIdle

\* layer.construct_puzzle(ctx)
DoConstructPuzzle ==
    /\ lpc = "start"
    /\ node' = ConstructPuzzle(layer)
    /\ lpc' = "tree"
    /\ UNCHANGED <<layer, puzzle, parsed, codecVars, offerVars, storeVars, sslVars, netVars>>

\* Puzzle::parse(allocator, node)
DoPuzzleParse ==
    /\ lpc = "tree"
    /\ puzzle' = PuzzleParse(node)
    /\ lpc' = "puzzle"
    /\ UNCHANGED <<layer, node, parsed, codecVars, offerVars, storeVars, sslVars, netVars>>

\* P2DelegatedConditionsLayer::parse_puzzle(allocator, puzzle)
DoParsePuzzle ==
    /\ lpc = "puzzle"
    /\ parsed' = ParsePuzzle(puzzle)
    /\ lpc' = "parsed"
    /\ UNCHANGED <<layer, node, puzzle, codecVars, offerVars, storeVars, sslVars, netVars>>

NextLayer ==
    \/ DoConstructPuzzle
    \/ DoPuzzleParse
    \/ DoParsePuzzle

SpecLayer == InitLayer /\ [][NextLayer]_vars

(***************************************************************************)
(* Properties of the delegated-conditions layer.                           *)
(***************************************************************************)
\* C8: parse_puzzle returns Ok(None) for a puzzle that is not curried and
\* for a curried puzzle with another mod hash, whatever its arguments are
C8_OtherPuzzleIsNone ==
    (lpc = "parsed" /\ (~puzzle.curried \/ puzzle.mod_hash # P2_DELEGATED_CONDITIONS_PUZZLE_HASH))
        => parsed = OkNone

\* a puzzle curried on another template, with arguments that are no
\* P2DelegatedConditionsArgs, has been parsed to Ok(None)
C8_Witness ==
    /\ lpc = "parsed"
    /\ puzzle.curried
    /\ puzzle.mod_hash = TreeHash(STANDARD_PUZZLE)
    /\ puzzle.args = Nil
    /\ parsed = OkNone

\* the tree is the curried argument list of some public key
IsP2DelegatedConditionsArgs(n) ==
    \E pk \in PublicKeys : n = ListOf(<<Atom(<<4>>), Pair(Atom(<<1>>), Atom(pk)), Atom(<<1>>)>>, Nil)

\* C9: parse_puzzle returns DriverError::FromClvm for a curried puzzle with
\* the mod hash of the layer whose arguments are no P2DelegatedConditionsArgs
C9_CorruptArgsIsError ==
    (/\ lpc = "parsed" /\ puzzle.curried
     /\ puzzle.mod_hash = P2_DELEGATED_CONDITIONS_PUZZLE_HASH
     /\ ~IsP2DelegatedConditionsArgs(puzzle.args))
        => (~parsed.ok /\ parsed.err.kind = "FromClvm")

\* a puzzle of the layer curried with a 48-byte atom that is no key has
\* been parsed to an error
C9_Witness ==
    /\ lpc = "parsed" /\ puzzle.curried
    /\ puzzle.mod_hash = P2_DELEGATED_CONDITIONS_PUZZLE_HASH
    /\ puzzle.args = CurryArgs(<<Atom(Rep(0, PUBLIC_KEY_SIZE))>>, Atom(<<1>>))
    /\ ~parsed.ok

\* C10: parse_puzzle of the tree construct_puzzle built for a layer returns
\* Ok(Some) of a layer with the same public key
C10_ConstructParseRoundTrip ==
    (lpc = "parsed" /\ layer # NoLayer) => parsed = OkSome([public_key |-> layer.public_key])

\* the layer of the finite key has been constructed and parsed back
C10_Witness ==
    /\ lpc = "parsed"
    /\ layer.public_key = FiniteKey
    /\ puzzle.curried
    /\ parsed.ok /\ parsed.some

(***************************************************************************)
(* Offer compression (src/src/spends/puzzles/offer/offer_compression.rs).  *)
(* A byte is a number in 0..255, a byte string a sequence of bytes.        *)
(***************************************************************************)
MIN_VERSION == 6
MAX_VERSION == 6

\* The puzzle templates of chia_puzzles.  Their bytes stand in for the
\* serialized programs: pairwise distinct, non-empty byte strings.
STANDARD_PUZZLE_BYTES == <<255, 1, 2>>
CAT_PUZZLE_V1 == <<255, 2, 1>>
SETTLEMENT_PAYMENTS_PUZZLE_V1 == <<255, 1, 1>>
SINGLETON_TOP_LAYER_PUZZLE == <<255, 2, 2>>
NFT_STATE_LAYER_PUZZLE == <<255, 1, 255>>
NFT_OWNERSHIP_LAYER_PUZZLE == <<255, 2, 255>>
NFT_METADATA_UPDATER_PUZZLE == <<255, 255, 1>>
NFT_ROYALTY_TRANSFER_PUZZLE == <<255, 255, 2>>
CAT_PUZZLE == <<255, 1, 2, 1>>
SETTLEMENT_PAYMENTS_PUZZLE == <<255, 2, 1, 2>>

\* the table handed to define_compression_versions!, one entry per
\* `version => bytes, ...;` line; version 6 introduces the empty array [0; 0]
CompressionVersions == <<
    [version |-> 1, bytes |-> <<STANDARD_PUZZLE_BYTES, CAT_PUZZLE_V1>>],
    [version |-> 2, bytes |-> <<SETTLEMENT_PAYMENTS_PUZZLE_V1>>],
    [version |-> 3, bytes |-> <<SINGLETON_TOP_LAYER_PUZZLE, NFT_STATE_LAYER_PUZZLE,
                               NFT_OWNERSHIP_LAYER_PUZZLE, NFT_METADATA_UPDATER_PUZZLE,
                               NFT_ROYALTY_TRANSFER_PUZZLE>>],
    [version |-> 4, bytes |-> <<CAT_PUZZLE>>],
    [version |-> 5, bytes |-> <<SETTLEMENT_PAYMENTS_PUZZLE>>],
    [version |-> 6, bytes |-> << <<>> >>] >>

\* bytes.extend_from_slice(..) for each byte string of a list, in order
RECURSIVE ExtendFromSlices(_, _)
ExtendFromSlices(bytes, slices) ==
    IF slices = <<>> THEN bytes
    ELSE ExtendFromSlices(bytes \o Head(slices), Tail(slices))

\* the expansion of zdict_for_version from entry i of the table on
RECURSIVE ZdictFrom(_, _, _)
ZdictFrom(i, bytes, v) ==
    IF i > Len(CompressionVersions) THEN bytes
    ELSE ZdictFrom(i + 1,
                   IF v >= CompressionVersions[i].version
                   THEN ExtendFromSlices(bytes, CompressionVersions[i].bytes)
                   ELSE bytes,
                   v)

\* the dictionary of only the templates introduced at the version itself
RECURSIVE ZdictFromOwnVersion(_, _, _)
ZdictFromOwnVersion(i, bytes, v) ==
    IF i > Len(CompressionVersions) THEN bytes
    ELSE ZdictFromOwnVersion(i + 1,
                   IF v = CompressionVersions[i].version
                   THEN ExtendFromSlices(bytes, CompressionVersions[i].bytes)
                   ELSE bytes,
                   v)

zdict_for_version_own_version_only(v) == ZdictFromOwnVersion(1, <<>>, v)

zdict_for_version(v) == ZdictFrom(1, <<>>, v)

\* puzzles.iter().any(|puzzle| puzzle == &bytes)
AnyPuzzleIs(puzzles, bytes) == \E k \in 1..Len(puzzles) : puzzles[k] = bytes

\* the expansion of required_compression_version from template j of
\* entry i on: one `if` per template, in table order
RECURSIVE RequiredFrom(_, _, _, _)
RequiredFrom(i, j, required_version, puzzles) ==
    IF i > Len(CompressionVersions) THEN required_version
    ELSE IF j > Len(CompressionVersions[i].bytes)
         THEN RequiredFrom(i + 1, 1, required_version, puzzles)
         ELSE RequiredFrom(i, j + 1,
                  IF /\ required_version < CompressionVersions[i].version
                     /\ AnyPuzzleIs(puzzles, CompressionVersions[i].bytes[j])
                  THEN CompressionVersions[i].version
                  ELSE required_version,
                  puzzles)

\* the selection with the comparison of the versions turned around
RECURSIVE RequiredFromInverted(_, _, _, _)
RequiredFromInverted(i, j, required_version, puzzles) ==
    IF i > Len(CompressionVersions) THEN required_version
    ELSE IF j > Len(CompressionVersions[i].bytes)
         THEN RequiredFromInverted(i + 1, 1, required_version, puzzles)
         ELSE RequiredFromInverted(i, j + 1,
                  IF /\ required_version > CompressionVersions[i].version
                     /\ AnyPuzzleIs(puzzles, CompressionVersions[i].bytes[j])
                  THEN CompressionVersions[i].version
                  ELSE required_version,
                  puzzles)

required_compression_version_inverted(puzzles) == RequiredFromInverted(1, 1, MIN_VERSION, puzzles)

\* the selection starting at 0 and not at MIN_VERSION
required_compression_version_from_zero(puzzles) == RequiredFrom(1, 1, 0, puzzles)

required_compression_version(puzzles) == RequiredFrom(1, 1, MIN_VERSION, puzzles)

(***************************************************************************)
(* The zlib stream of flate2 (Compress / Decompress with a zlib header).   *)
(* The stream keeps the layout of RFC 1950: CMF, FLG, the Adler-32 of the  *)
(* preset dictionary when FLG has FDICT, the deflate data, the Adler-32 of *)
(* the uncompressed data.  The deflate data keeps the LZ77 layer of RFC    *)
(* 1951, literals and (distance, length) copies out of the window that     *)
(* starts as the preset dictionary, and leaves out the Huffman coding: a   *)
(* literal is LITERAL and its byte, a copy is MATCH, its distance and its  *)
(* length, the end of the block is END_OF_BLOCK.                           *)
(***************************************************************************)
ADLER_BASE == 65521

RECURSIVE AdlerSums(_, _, _)
AdlerSums(bytes, a, b) ==
    IF bytes = <<>> THEN <<a, b>>
    ELSE AdlerSums(Tail(bytes), (a + Head(bytes)) % ADLER_BASE,
                   (b + ((a + Head(bytes)) % ADLER_BASE)) % ADLER_BASE)

\* the 4 bytes of the checksum, most significant first
Adler32(bytes) ==
    LET s == AdlerSums(bytes, 1, 0)
    IN  <<s[2] \div 256, s[2] % 256, s[1] \div 256, s[1] % 256>>

\* CMF = 0x78 (deflate, 32K window), FLG of compression level 6
ZLIB_HEADER == <<120, 156>>
\* the same with FDICT set, as the compressed fixture starts (78 bb)
ZLIB_HEADER_FDICT == <<120, 187>>

\* the header check of inflate: method 8, window bits, FCHECK
ValidHeader(cmf, flg) ==
    /\ cmf % 16 = 8
    /\ cmf \div 16 <= 7
    /\ (cmf * 256 + flg) % 31 = 0
HasFdict(flg) == (flg \div 32) % 2 = 1

LITERAL == 0
MATCH == 1
END_OF_BLOCK == 2
MIN_MATCH == 3

\* the copies deflate can emit at input[i]: at least MIN_MATCH bytes found
\* in the window, the dictionary followed by the input consumed so far
Matches(input, i, window) ==
    {m \in (1..Len(window)) \X (MIN_MATCH..(Len(input) - i + 1)) :
        /\ m[2] <= m[1]
        /\ \A k \in 0..(m[2] - 1) : window[Len(window) - m[1] + 1 + k] = input[i + k]}

\* deflate: the longest match, the nearest of the longest, else a literal
RECURSIVE Deflate(_, _, _)
Deflate(input, i, zdict) ==
    IF i > Len(input) THEN <<END_OF_BLOCK>>
    ELSE LET found == Matches(input, i, zdict \o SubSeq(input, 1, i - 1))
         IN  IF found = {} THEN <<LITERAL, input[i]>> \o Deflate(input, i + 1, zdict)
             ELSE LET best == CHOOSE m \in found : \A o \in found :
                                  m[2] > o[2] \/ (m[2] = o[2] /\ m[1] <= o[1])
                  IN  <<MATCH, best[1], best[2]>> \o Deflate(input, i + best[2], zdict)

\* the bytes a copy of the given distance and length appends to the window
CopyOf(window, dist, len) ==
    [k \in 1..len |-> window[Len(window) - dist + 1 + ((k - 1) % dist)]]

\* io::Error of the given ErrorKind
IoError(kind) == Err([kind |-> "Io", io |-> kind])

\* ZlibDecoder::read_to_end from byte i of the stream on, out being the
\* output so far: the output at a trailer that checks; "corrupt deflate
\* stream" at a malformed token, a distance beyond the window or a wrong
\* checksum; at the end of the input before the end of the stream the
\* inflater reports BufError, which the reader takes as the end of the data
RECURSIVE Inflate(_, _, _, _)
Inflate(input, i, zdict, out) ==
    IF i > Len(input) THEN Ok(out)
    ELSE CASE input[i] = LITERAL ->
                IF i + 1 > Len(input) THEN Ok(out)
                ELSE Inflate(input, i + 2, zdict, Append(out, input[i + 1]))
           [] input[i] = MATCH ->
                IF i + 2 > Len(input) THEN Ok(out)
                ELSE IF input[i + 1] < 1 \/ input[i + 1] > Len(zdict \o out)
                        \/ input[i + 2] < MIN_MATCH
                     THEN IoError("InvalidInput")
                     ELSE Inflate(input, i + 3, zdict,
                                  out \o CopyOf(zdict \o out, input[i + 1], input[i + 2]))
           [] input[i] = END_OF_BLOCK ->
                IF i + 4 > Len(input) \/ SubSeq(input, i + 1, i + 4) = Adler32(out)
                THEN Ok(out)
                ELSE IoError("InvalidInput")
           [] OTHER -> IoError("InvalidInput")

\* Decompress::decompress(input, &mut [], Finish) on a fresh inflater: what
\* the first call returns, with no room for output.  "Ok" stands for the
\* three Ok statuses (Ok, BufError, StreamEnd), "NeedsDictionary" and
\* "DataError" for the two errors; total_in is the input consumed.
FirstDecompress(input) ==
    IF Len(input) < 2 THEN [status |-> "Ok", total_in |-> Len(input)]
    ELSE IF ~ValidHeader(input[1], input[2]) THEN [status |-> "DataError", total_in |-> 2]
    ELSE IF HasFdict(input[2])
         THEN IF Len(input) < 6 THEN [status |-> "Ok", total_in |-> Len(input)]
              ELSE [status |-> "NeedsDictionary", total_in |-> 6]
    ELSE IF Len(input) < 3 THEN [status |-> "Ok", total_in |-> 2]
    ELSE CASE input[3] = LITERAL -> [status |-> "Ok", total_in |-> Len(input)]
           [] input[3] = MATCH ->
                \* the window is empty: every distance is too far back
                IF Len(input) < 5 THEN [status |-> "Ok", total_in |-> Len(input)]
                ELSE [status |-> "DataError", total_in |-> 5]
           [] input[3] = END_OF_BLOCK ->
                IF Len(input) < 7 THEN [status |-> "Ok", total_in |-> Len(input)]
                ELSE IF SubSeq(input, 4, 7) = Adler32(<<>>)
                     THEN [status |-> "Ok", total_in |-> 7]
                     ELSE [status |-> "DataError", total_in |-> 7]
           [] OTHER -> [status |-> "DataError", total_in |-> 3]

\* Decompress::set_dictionary: the inflater must be waiting for the
\* dictionary, and the dictionary must have the checksum the stream names
SetDictionaryOk(input, first, zdict) ==
    /\ first.status = "NeedsDictionary"
    /\ SubSeq(input, 3, 6) = Adler32(zdict)

\* compress without the preset dictionary
compress_without_dictionary(input, zdict) ==
    Ok(ZLIB_HEADER \o Deflate(input, 1, <<>>) \o Adler32(input))

\* compress: a level 6 compressor with a zlib header, the dictionary set,
\* read to its end.  deflate sets FDICT and writes the dictionary's
\* checksum when the dictionary put bytes into the window.
compress(input, zdict) ==
    Ok((IF zdict = <<>> THEN ZLIB_HEADER ELSE ZLIB_HEADER_FDICT \o Adler32(zdict))
       \o Deflate(input, 1, zdict) \o Adler32(input))

\* decompress without the guard on the first call of the inflater
decompress_without_guard(input, zdict) ==
    LET first == FirstDecompress(input)
    IN  IF ~SetDictionaryOk(input, first, zdict)
        THEN [res |-> IoError("Other"), steps |-> <<"decompress", "set_dictionary">>]
        ELSE [res |-> Inflate(input, first.total_in + 1, zdict, <<>>),
              steps |-> <<"decompress", "set_dictionary", "read_to_end">>]

\* decompress: its io::Result and the calls it made on the inflater
decompress(input, zdict) ==
    LET first == FirstDecompress(input)
    IN  IF first.status = "Ok"
        THEN [res |-> IoError("Unsupported"), steps |-> <<"decompress">>]
        ELSE IF ~SetDictionaryOk(input, first, zdict)
        THEN [res |-> IoError("Other"), steps |-> <<"decompress", "set_dictionary">>]
        ELSE [res |-> Inflate(input, first.total_in + 1, zdict, <<>>),
              steps |-> <<"decompress", "set_dictionary", "read_to_end">>]

\* u16::to_be_bytes, u16::to_le_bytes, u16::from_be_bytes
to_be_bytes(v) == <<v \div 256, v % 256>>
to_le_bytes(v) == <<v % 256, v \div 256>>
from_be_bytes(bytes) == bytes[1] * 256 + bytes[2]

\* DecompressionError; its Io variant is IoError above
MissingVersionPrefix == Err([kind |-> "MissingVersionPrefix"])
UnsupportedVersion == Err([kind |-> "UnsupportedVersion"])

\* compress_offer_bytes writing the version little-endian
compress_offer_bytes_little_endian(bytes, v) ==
    LET zdict == zdict_for_version(v)
        stream == compress(bytes, zdict)
    IN  [res |-> IF stream.ok THEN Ok(to_le_bytes(v) \o stream.v) ELSE stream,
         zdict |-> zdict]

\* compress_offer_bytes: its io::Result and the dictionary it built
compress_offer_bytes(bytes, v) ==
    LET zdict == zdict_for_version(v)
        stream == compress(bytes, zdict)
    IN  [res |-> IF stream.ok THEN Ok(to_be_bytes(v) \o stream.v) ELSE stream,
         zdict |-> zdict]

\* what decompress_offer_bytes returns after the dictionary is built
DecompressWith(bytes, v) ==
    LET zdict == zdict_for_version(v)
        run == decompress(SubSeq(bytes, 3, Len(bytes)), zdict)
    IN  [res |-> run.res, version |-> v, zdict |-> zdict,
         steps |-> <<"from_be_bytes", "zdict_for_version">> \o run.steps]

\* decompress_offer_bytes without the check of the version
decompress_offer_bytes_unchecked(bytes) ==
    IF Len(bytes) < 2
    THEN [res |-> MissingVersionPrefix, version |-> NoVersion, zdict |-> <<>>, steps |-> <<>>]
    ELSE DecompressWith(bytes, from_be_bytes(bytes))

\* decompress_offer_bytes asking for bytes.get(0..=2)
decompress_offer_bytes_three_byte_prefix(bytes) ==
    IF Len(bytes) < 3
    THEN [res |-> MissingVersionPrefix, version |-> NoVersion, zdict |-> <<>>, steps |-> <<>>]
    ELSE IF from_be_bytes(bytes) > MAX_VERSION
         THEN [res |-> UnsupportedVersion, version |-> from_be_bytes(bytes),
               zdict |-> <<>>, steps |-> <<"from_be_bytes">>]
         ELSE DecompressWith(bytes, from_be_bytes(bytes))

\* decompress_offer_bytes: its Result, the version it read (NoVersion when
\* it read none), the dictionary it built and the steps it took
decompress_offer_bytes(bytes) ==
    IF Len(bytes) < 2
    THEN [res |-> MissingVersionPrefix, version |-> NoVersion, zdict |-> <<>>, steps |-> <<>>]
    ELSE IF from_be_bytes(bytes) > MAX_VERSION
         THEN [res |-> UnsupportedVersion, version |-> from_be_bytes(bytes),
               zdict |-> <<>>, steps |-> <<"from_be_bytes">>]
         ELSE DecompressWith(bytes, from_be_bytes(bytes))

(***************************************************************************)
(* compress_offer and decompress_offer.  A spend bundle is the list of the *)
(* puzzle reveals of its coin spends.  Its Streamable bytes are the number *)
(* of coin spends as four big-endian bytes, then each reveal behind its    *)
(* length; from_bytes reads that layout back and rejects bytes that end    *)
(* early or go on after the last coin spend.                               *)
(***************************************************************************)
StreamableError(kind) == Err([kind |-> "Streamable", streamable |-> kind])

RECURSIVE StreamCoinSpends(_)
StreamCoinSpends(coin_spends) ==
    IF coin_spends = <<>> THEN <<>>
    ELSE <<Len(Head(coin_spends))>> \o Head(coin_spends) \o StreamCoinSpends(Tail(coin_spends))

\* spend_bundle.to_bytes()
SpendBundle_to_bytes(coin_spends) ==
    Ok(<<0, 0>> \o to_be_bytes(Len(coin_spends)) \o StreamCoinSpends(coin_spends))

RECURSIVE ParseCoinSpends(_, _, _, _)
\* from byte i on, count coin spends are yet to be read behind those in out
ParseCoinSpends(bytes, i, count, out) ==
    IF count = 0
    THEN IF i > Len(bytes) THEN Ok(out) ELSE StreamableError("InputTooLarge")
    ELSE IF i > Len(bytes) \/ i + bytes[i] > Len(bytes)
         THEN StreamableError("EndOfBuffer")
         ELSE ParseCoinSpends(bytes, i + 1 + bytes[i], count - 1,
                              Append(out, SubSeq(bytes, i + 1, i + bytes[i])))

\* SpendBundle::from_bytes(&bytes)
SpendBundle_from_bytes(bytes) ==
    IF Len(bytes) < 4 THEN StreamableError("EndOfBuffer")
    ELSE IF bytes[1] # 0 \/ bytes[2] # 0 THEN StreamableError("EndOfBuffer")
    ELSE ParseCoinSpends(bytes, 5, from_be_bytes(SubSeq(bytes, 3, 4)), <<>>)

\* compress_offer_bytes at version 0 whatever the puzzle reveals are
compress_offer_at_version_zero(coin_spends) ==
    LET bytes == SpendBundle_to_bytes(coin_spends)
    IN  IF ~bytes.ok THEN [res |-> bytes, version |-> NoVersion, bytes |-> <<>>]
        ELSE [res |-> compress_offer_bytes(bytes.v, 0).res, version |-> 0, bytes |-> bytes.v]

\* compress_offer: its Result, the version it selected and the bytes it streamed
compress_offer(coin_spends) ==
    LET bytes == SpendBundle_to_bytes(coin_spends)
        v == required_compression_version(coin_spends)
    IN  IF ~bytes.ok THEN [res |-> bytes, version |-> NoVersion, bytes |-> <<>>]
        ELSE [res |-> compress_offer_bytes(bytes.v, v).res, version |-> v, bytes |-> bytes.v]

\* decompress_offer: its Result
decompress_offer(bytes) ==
    LET decompressed_bytes == decompress_offer_bytes(bytes).res
    IN  IF ~decompressed_bytes.ok THEN [res |-> decompressed_bytes]
        ELSE [res |-> SpendBundle_from_bytes(decompressed_bytes.v)]

(***************************************************************************)
(* The offer codec as a state machine: a version is selected for a list of *)
(* reveals; bytes are compressed at a version and decompressed again; or   *)
(* packed bytes are given and decompressed.                                *)
(***************************************************************************)
\* greatest length of the bytes handed to compress_offer_bytes
MaxPlain == 4
\* greatest number of puzzle reveals
MaxReveals == 2

PlainBytes == {1, 2, 255}
PlainValues == SeqsUpTo(PlainBytes, MaxPlain)

\* versions handed to compress_offer_bytes: the table's, and some beyond
Versions == (0..7) \cup {262, 1536, 65535}

\* every template of the table
Templates ==
    UNION {{CompressionVersions[i].bytes[j] : j \in 1..Len(CompressionVersions[i].bytes)} :
              i \in 1..Len(CompressionVersions)}

\* reveals: every template (the empty one of version 6 among them) and one
\* puzzle that is no template
RevealValues == Templates \cup {<<9, 9>>}

\* the version prefixes of given inputs: none, half of one, and whole ones
Prefixes == {<<>>, <<0>>, <<6>>} \cup {to_be_bytes(v) : v \in {0, 5, 6, 7, 65535}}

\* the stream compress writes for the bytes at the version
StreamOf(bytes, v) == compress(bytes, zdict_for_version(v)).v

\* payloads of given inputs: no stream, streams without FDICT, streams with
\* FDICT that are cut short, name another dictionary or are corrupt, and
\* streams as compress writes them
Payloads ==
    {<<>>, <<120>>, <<120, 157>>, <<1, 2, 3>>,
     ZLIB_HEADER,
     ZLIB_HEADER \o <<LITERAL, 1>> \o <<END_OF_BLOCK>> \o Adler32(<<1>>),
     ZLIB_HEADER \o <<MATCH, 1, 3>>,
     ZLIB_HEADER \o <<END_OF_BLOCK>> \o Adler32(<<>>),
     ZLIB_HEADER \o <<END_OF_BLOCK, 0, 0, 0, 0>>,
     ZLIB_HEADER \o <<7>>,
     ZLIB_HEADER_FDICT,
     ZLIB_HEADER_FDICT \o <<0, 0>>,
     ZLIB_HEADER_FDICT \o <<0, 0, 0, 2>> \o <<END_OF_BLOCK>> \o Adler32(<<>>),
     ZLIB_HEADER_FDICT \o Adler32(zdict_for_version(6)) \o <<7>>,
     ZLIB_HEADER_FDICT \o Adler32(zdict_for_version(6)) \o <<MATCH, 200, 3>>,
     ZLIB_HEADER_FDICT \o Adler32(zdict_for_version(6)) \o <<LITERAL, 1, END_OF_BLOCK, 0, 0, 0, 0>>}
    \cup {StreamOf(b, v) : b \in {<<>>, <<1>>, <<255, 1, 2, 1>>}, v \in {0, 5, 6}}

PackedInputs == {p \o s : p \in Prefixes, s \in Payloads}

InitOffer ==
    /\ \/ /\ reveals \in SeqsUpTo(RevealValues, MaxReveals)
          /\ version = NoVersion
          /\ plain = <<>>
          /\ packed = <<>>
          /\ opc = "reveals"
       \/ /\ reveals = <<>>
          /\ version \in Versions
          /\ plain \in PlainValues
          /\ packed = <<>>
          /\ opc = "bytes"
       \/ /\ reveals = <<>>
          /\ version = NoVersion
          /\ plain = <<>>
          /\ packed \in PackedInputs
          /\ opc = "packed"
       \/ /\ reveals \in SeqsUpTo(RevealValues, MaxReveals)
          /\ version = NoVersion
          /\ plain = <<>>
          /\ packed = <<>>
          /\ opc = "bundle"
    /\ dictionary = <<>>
    /\ unpacked = NoValue
    /\ node = Nil
    /\ InitCodecIdle
    /\ InitLayerIdle
    /\ InitOthersIdle

\* required_compression_version(reveals)
RequiredCompressionVersion ==
    /\ opc = "reveals"
    /\ version' = required_compression_version(reveals)
    /\ opc' = "selected"
    /\ UNCHANGED <<reveals, plain, dictionary, packed, unpacked, node, codecVars, layerVars, storeVars, sslVars, netVars>>

\* compress_offer_bytes(&plain, version)
CompressOfferBytes ==
    /\ opc = "bytes"
    /\ LET run == compress_offer_bytes(plain, version)
       IN  /\ run.res.ok
           /\ packed' = run.res.v
           /\ dictionary' = run.zdict
    /\ opc' = "compressed"
    /\ UNCHANGED <<reveals, version, plain, unpacked, node, codecVars, layerVars, storeVars, sslVars, netVars>>

\* decompress_offer_bytes(&packed)
DecompressOfferBytes ==
    /\ opc \in {"compressed", "packed"}
    /\ unpacked' = decompress_offer_bytes(packed)
    /\ opc' = "decompressed"
    /\ UNCHANGED <<reveals, version, plain, dictionary, packed, node, codecVars, layerVars, storeVars, sslVars, netVars>>

\* compress_offer(spend_bundle), the bundle being that of the reveals
CompressOffer ==
    /\ opc = "bundle"
    /\ LET run == compress_offer(reveals)
       IN  /\ run.res.ok
           /\ packed' = run.res.v
           /\ version' = run.version
           /\ plain' = run.bytes
    /\ opc' = "offer"
    /\ UNCHANGED <<reveals, dictionary, unpacked, node, codecVars, layerVars, storeVars, sslVars, netVars>>

\* decompress_offer(&packed)
DecompressOffer ==
    /\ opc = "offer"
    /\ unpacked' = decompress_offer(packed)
    /\ opc' = "bundled"
    /\ UNCHANGED <<reveals, version, plain, dictionary, packed, node, codecVars, layerVars, storeVars, sslVars, netVars>>

NextOffer ==
    \/ RequiredCompressionVersion
    \/ CompressOfferBytes
    \/ DecompressOfferBytes
    \/ CompressOffer
    \/ DecompressOffer

SpecOffer == InitOffer /\ [][NextOffer]_vars

(***************************************************************************)
(* Properties of the offer compression codec.                              *)
(***************************************************************************)
\* C11: for every version in MIN_VERSION..MAX_VERSION and every byte string,
\* decompress_offer_bytes of what compress_offer_bytes wrote at that version
\* succeeds and returns exactly the byte string
C11_CompressDecompressRoundTrip ==
    (opc = "decompressed" /\ version \in MIN_VERSION..MAX_VERSION)
        => unpacked.res = Ok(plain)

\* bytes that hold a template were compressed at version 6 with a copy out
\* of the dictionary, and inflated back
C11_Witness ==
    /\ opc = "decompressed"
    /\ version = 6
    /\ plain = <<255, 1, 2, 1>>
    /\ packed = to_be_bytes(6) \o ZLIB_HEADER_FDICT \o Adler32(dictionary)
                    \o <<MATCH, 8, 4, END_OF_BLOCK>> \o Adler32(plain)
    /\ unpacked.steps = <<"from_be_bytes", "zdict_for_version", "decompress",
                          "set_dictionary", "read_to_end">>
    /\ unpacked.res.ok

\* C12: decompress_offer_bytes produces no output for an input whose version
\* prefix lies outside MIN_VERSION..MAX_VERSION, below as well as above
C12_OnlySupportedVersionsAccepted ==
    (/\ opc = "decompressed"
     /\ Len(packed) >= 2
     /\ from_be_bytes(packed) \notin MIN_VERSION..MAX_VERSION)
        => ~unpacked.res.ok

\* C13: an input whose first two bytes, big-endian, exceed MAX_VERSION fails
\* with UnsupportedVersion whatever follows them, before the dictionary is
\* built and before the inflater sees a byte
C13_VersionAboveMaxIsUnsupported ==
    (/\ opc = "decompressed"
     /\ Len(packed) >= 2
     /\ from_be_bytes(packed) > MAX_VERSION)
        => /\ unpacked.res = UnsupportedVersion
           /\ unpacked.steps = <<"from_be_bytes">>

\* a well-formed stream of the version 6 dictionary under the prefix of
\* version 7 was refused
C13_Witness ==
    /\ opc = "decompressed"
    /\ packed = to_be_bytes(MAX_VERSION + 1) \o StreamOf(<<1>>, 6)
    /\ unpacked.res = UnsupportedVersion

\* C14: an input of length 0 or 1 fails with MissingVersionPrefix, and an
\* input of length 2 or more never does
C14_MissingPrefixExactlyWhenShort ==
    opc = "decompressed"
        => (Len(packed) < 2 <=> unpacked.res = MissingVersionPrefix)

\* an input of one byte was refused with MissingVersionPrefix
C14_Witness ==
    /\ opc = "decompressed"
    /\ packed = <<6>>
    /\ unpacked.res = MissingVersionPrefix

\* the table versions that have a template equal to one of the reveals
MatchedVersions(puzzles) ==
    {CompressionVersions[i].version : i \in
        {i \in 1..Len(CompressionVersions) :
            \E j \in 1..Len(CompressionVersions[i].bytes) :
                AnyPuzzleIs(puzzles, CompressionVersions[i].bytes[j])}}

SetMax(S) == CHOOSE m \in S : \A o \in S : o <= m

\* C15: required_compression_version returns the greater of MIN_VERSION and
\* the greatest table version with a template among the reveals: never below
\* MIN_VERSION, never above MAX_VERSION, never a version above MIN_VERSION
\* none of whose templates is among the reveals
C15_RequiredVersionIsGreatestMatch ==
    opc = "selected"
        => /\ version = SetMax(MatchedVersions(reveals) \cup {MIN_VERSION})
           /\ version >= MIN_VERSION
           /\ version <= MAX_VERSION
           /\ version \in MatchedVersions(reveals) \cup {MIN_VERSION}

\* a version was selected for reveals that hold the template of version 4
\* and a puzzle that is no template
C15_Witness ==
    /\ opc = "selected"
    /\ reveals = <<CAT_PUZZLE, <<9, 9>> >>
    /\ MatchedVersions(reveals) = {4}
    /\ version = MIN_VERSION

\* the lists of some of the elements of a list, in its order
RECURSIVE SubLists(_)
SubLists(list) ==
    IF list = <<>> THEN {<<>>}
    ELSE LET rest == SubLists(Tail(list))
         IN  rest \cup {<<Head(list)>> \o r : r \in rest}

\* C16: required_compression_version of a part of the reveals is at most
\* that of all of them, and it is MIN_VERSION when no reveal is a template
C16_RequiredVersionMonotone ==
    opc = "selected"
        => /\ \A part \in SubLists(reveals) : required_compression_version(part) <= version
           /\ (\A k \in 1..Len(reveals) : reveals[k] \notin Templates) => version = MIN_VERSION

\* a version was selected for two templates of different versions, each of
\* which alone is a part of the reveals
C16_Witness ==
    /\ opc = "selected"
    /\ reveals = <<SETTLEMENT_PAYMENTS_PUZZLE, STANDARD_PUZZLE_BYTES>>
    /\ <<STANDARD_PUZZLE_BYTES>> \in SubLists(reveals)
    /\ version = MIN_VERSION

RECURSIVE Flatten(_)
Flatten(lists) == IF lists = <<>> THEN <<>> ELSE Head(lists) \o Flatten(Tail(lists))

\* the templates introduced at table versions up to v, in ascending version
\* and then declaration order, one after the other
TemplatesUpTo(v) ==
    LET entries == SelectSeq(CompressionVersions, LAMBDA e : e.version <= v)
    IN  Flatten(Flatten([i \in 1..Len(entries) |-> entries[i].bytes]))

IsPrefixOf(s, t) == Len(s) <= Len(t) /\ SubSeq(t, 1, Len(s)) = s

\* the step was taken by decompress_offer_bytes
Took(step) == \E i \in 1..Len(unpacked.steps) : unpacked.steps[i] = step

\* C17: the dictionary built for a version is the templates introduced at
\* versions up to it, in table order; the dictionary of a smaller version is
\* a prefix of it; and decompress_offer_bytes builds for a version the
\* dictionary compress_offer_bytes built for it
C17_DictionaryIsCumulative ==
    /\ opc \in {"compressed", "decompressed"} /\ version # NoVersion
          => /\ dictionary = TemplatesUpTo(version)
             /\ \A v \in Versions : v <= version => IsPrefixOf(zdict_for_version(v), dictionary)
    /\ opc = "decompressed" /\ version # NoVersion /\ Took("zdict_for_version")
          => unpacked.zdict = dictionary

\* bytes were compressed and decompressed at version 4, whose dictionary
\* extends that of version 3 by one template
C17_Witness ==
    /\ opc = "decompressed"
    /\ version = 4
    /\ dictionary = zdict_for_version(3) \o CAT_PUZZLE
    /\ unpacked.zdict = dictionary

\* C18: compress_offer_bytes writes the two bytes of the version, most
\* significant first, and then the stream compressed with the dictionary of
\* that version; decompress_offer_bytes reads the version that was written
C18_VersionPrefixWrittenIsRead ==
    /\ opc \in {"compressed", "decompressed"} /\ version # NoVersion
          => /\ Len(packed) >= 2
             /\ packed[1] = version \div 256
             /\ packed[2] = version % 256
             /\ SubSeq(packed, 3, Len(packed)) = compress(plain, TemplatesUpTo(version)).v
    /\ opc = "decompressed" /\ version # NoVersion
          => unpacked.version = version

\* a version of two non-zero bytes was written and read back
C18_Witness ==
    /\ opc = "decompressed"
    /\ version = 262
    /\ SubSeq(packed, 1, 2) = <<1, 6>>
    /\ unpacked.version = 262

\* the bytes after the version prefix
Payload == SubSeq(packed, 3, Len(packed))

\* C19: decompress refuses with an io error, at its guard, every payload the
\* inflater takes without asking for the preset dictionary, and only a
\* payload that asks for the dictionary goes on to set_dictionary
C19_OnlyDictionaryRequestsPassGuard ==
    (opc = "decompressed" /\ Took("decompress"))
        => /\ FirstDecompress(Payload).status = "Ok"
                 => /\ unpacked.res = IoError("Unsupported")
                    /\ ~Took("set_dictionary")
           /\ Took("set_dictionary") => FirstDecompress(Payload).status = "NeedsDictionary"

\* C19 as amended: a payload the inflater refuses with another error passes
\* the guard too and fails at set_dictionary with an io error; only a
\* payload that asks for the dictionary is inflated
C19_OnlyDictionaryRequestsAreInflated ==
    (opc = "decompressed" /\ Took("decompress"))
        => /\ FirstDecompress(Payload).status = "Ok"
                 => /\ unpacked.res = IoError("Unsupported")
                    /\ ~Took("set_dictionary")
           /\ FirstDecompress(Payload).status = "DataError"
                 => /\ Took("set_dictionary")
                    /\ ~Took("read_to_end")
                    /\ ~unpacked.res.ok /\ unpacked.res.err.kind = "Io"
           /\ Took("read_to_end") => FirstDecompress(Payload).status = "NeedsDictionary"

\* a whole zlib stream without FDICT under the prefix of version 6 was
\* refused at the guard
C19_Witness ==
    /\ opc = "decompressed"
    /\ packed = to_be_bytes(6) \o ZLIB_HEADER \o <<LITERAL, 1, END_OF_BLOCK>> \o Adler32(<<1>>)
    /\ unpacked.steps = <<"from_be_bytes", "zdict_for_version", "decompress">>
    /\ unpacked.res = IoError("Unsupported")

(***************************************************************************)
(* The key stores: SimpleDerivationStore                                   *)
(* (src/src/stores/derivation_store/simple_derivation_store.rs),           *)
(* UnhardenedKeyStore (src/src/sqlite/unhardened_key_store.rs) and the     *)
(* trait KeyStore (src/src/key_store.rs).                                  *)
(***************************************************************************)
\* greatest target index of a derivation call
MaxIndex == 3
\* greatest number of derive_keys calls recorded
MaxCalls == 3

\* The derivations of chia_bls and chia_wallet, each the term of its
\* arguments: different arguments give different keys and hashes.
DEFAULT_HIDDEN_PUZZLE_HASH == [hash |-> "DEFAULT_HIDDEN_PUZZLE_HASH"]
derive_unhardened(key, index) == [parent |-> key, unhardened |-> index]
derive_synthetic(key, hidden_puzzle_hash) ==
    [key |-> key, synthetic |-> hidden_puzzle_hash]
standard_puzzle_hash(public_key) == [standard_puzzle_hash |-> public_key]

\* the key both stores derive for an index
DerivedKey(index) ==
    derive_synthetic(derive_unhardened([key |-> "intermediate_pk"], index),
                     DEFAULT_HIDDEN_PUZZLE_HASH)

\* IndexMap::get_index_of, 0 for None
get_index_of(map, key) ==
    IF \E k \in 1..Len(map) : map[k].key = key
    THEN CHOOSE k \in 1..Len(map) : map[k].key = key
    ELSE 0

\* IndexMap::insert: the value of a key the map holds is replaced where it
\* is, a new key is added at the end
IndexMapInsert(map, key, val) ==
    IF get_index_of(map, key) # 0
    THEN [map EXCEPT ![get_index_of(map, key)].value = val]
    ELSE Append(map, [key |-> key, value |-> val])

\* the loop `for index in current..end` of derive_to_index
RECURSIVE SimpleDeriveFrom(_, _, _)
SimpleDeriveFrom(map, index, end) ==
    IF index >= end THEN map
    ELSE SimpleDeriveFrom(IndexMapInsert(map, DerivedKey(index),
                                         standard_puzzle_hash(DerivedKey(index))),
                          index + 1, end)

\* derive_to_index with the loop `for index in current..=index`
SimpleDerivationStore_derive_to_index_inclusive(map, index) ==
    SimpleDeriveFrom(map, Len(map), index + 1)

\* SimpleDerivationStore::derive_to_index, under the lock for all of it
SimpleDerivationStore_derive_to_index(map, index) ==
    SimpleDeriveFrom(map, Len(map), index)

\* SimpleDerivationStore::count, public_key, puzzle_hash; None is NoValue
SimpleDerivationStore_count(map) == Len(map)
SimpleDerivationStore_public_key(map, index) ==
    IF index + 1 <= Len(map) THEN map[index + 1].key ELSE NoValue
SimpleDerivationStore_puzzle_hash(map, index) ==
    IF index + 1 <= Len(map) THEN map[index + 1].value ELSE NoValue

(***************************************************************************)
(* UnhardenedKeyStore over the table unhardened_keys.  The calls of the    *)
(* pool are the steps: begin, the count, each insert, commit.  Of SQLite   *)
(* the model keeps: a query on the pool sees the committed rows; one       *)
(* transaction at a time holds the write lock, from its first insert to    *)
(* its end, and an insert of another transaction waits for it; a unique    *)
(* `index` makes the insert of an index the table holds fail.              *)
(***************************************************************************)
Callers == {1, 2}

\* a row whose stored index counts from one
RowOfOneBased(i) ==
    [index |-> i + 1, public_key |-> DerivedKey(i),
     p2_puzzle_hash |-> standard_puzzle_hash(DerivedKey(i))]

\* the row derive_to_index inserts for i
RowOf(i) ==
    [index |-> i, public_key |-> DerivedKey(i),
     p2_puzzle_hash |-> standard_puzzle_hash(DerivedKey(i))]

\* SELECT COUNT(*) FROM unhardened_keys, on the pool
CountQuery(table) == Len(table)

\* UnhardenedKeyStore::public_keys: SELECT public_key FROM unhardened_keys
public_keys(table) == [k \in 1..Len(table) |-> table[k].public_key]

\* the indices of the rows
Indices(table) == {table[k].index : k \in 1..Len(table)}

\* the unwrap of a failed insert panics: the transaction is dropped
Rollback(tx) == [tx EXCEPT !.pc = "failed", !.inserted = <<>>]

(***************************************************************************)
(* KeyStore::derive_keys_until over an implementor whose derive_keys       *)
(* advances next_derivation_index by count.                                *)
(***************************************************************************)
derive_keys(self, count) ==
    [next_derivation_index |-> self.next_derivation_index + count,
     derive_keys_calls |-> Append(self.derive_keys_calls, count)]

\* derive_keys_until handing the index to derive_keys
derive_keys_until_by_index(self, index) ==
    IF index < self.next_derivation_index THEN self
    ELSE derive_keys(self, index)

derive_keys_until(self, index) ==
    IF index < self.next_derivation_index THEN self
    ELSE derive_keys(self, index - self.next_derivation_index)

(***************************************************************************)
(* The stores as a state machine.  One store is in use: the simple store   *)
(* takes derive_to_index calls one after the other (the lock is held for   *)
(* the whole call); two callers of the sqlite store run derive_to_index    *)
(* on one pool, step by step; the trait takes derive_keys_until calls.     *)
(***************************************************************************)
IdleTx(n) == [pc |-> "idle", index |-> n, count |-> 0, i |-> 0, inserted |-> <<>>]

InitStores ==
    /\ spc \in {"simple", "sqlite", "trait"}
    /\ derivations = <<>>
    /\ requested = {}
    /\ target = 0
    /\ rows = <<>>
    /\ IF spc = "sqlite"
       THEN /\ txs \in [Callers -> {IdleTx(n) : n \in 0..MaxIndex}]
            /\ index_is_key \in BOOLEAN
       ELSE /\ txs = <<>>
            /\ index_is_key = FALSE
    /\ writer = 0
    /\ next_derivation_index = 0
    /\ until_index = 0
    /\ derive_keys_calls = <<>>
    /\ node = Nil
    /\ InitCodecIdle
    /\ InitLayerIdle
    /\ InitOfferIdle
    /\ InitSslIdle
    /\ InitNetworkIdle

\* store.derive_to_index(index) on the simple store
SimpleDeriveToIndex ==
    /\ spc = "simple"
    /\ \E index \in 0..MaxIndex :
          /\ derivations' = SimpleDerivationStore_derive_to_index(derivations, index)
          /\ requested' = requested \cup {index}
          /\ target' = index
    /\ UNCHANGED <<rows, txs, writer, index_is_key, next_derivation_index, until_index,
                   derive_keys_calls, spc, node, codecVars, layerVars, offerVars,
                   sslVars, netVars>>

SqliteUnchanged ==
    UNCHANGED <<derivations, requested, target, index_is_key, next_derivation_index,
                until_index, derive_keys_calls, spc, node, codecVars, layerVars,
                offerVars, sslVars, netVars>>

\* self.pool.begin(): a caller enters derive_to_index and opens its transaction
Begin(c) ==
    /\ spc = "sqlite"
    /\ txs[c].pc = "idle"
    /\ txs' = [txs EXCEPT ![c].pc = "begun"]
    /\ UNCHANGED <<rows, writer>>
    /\ SqliteUnchanged

\* the count, fetched on the pool
Count(c) ==
    /\ spc = "sqlite"
    /\ txs[c].pc = "begun"
    /\ txs' = [txs EXCEPT ![c].pc = "counted",
                          ![c].count = CountQuery(rows),
                          ![c].i = CountQuery(rows)]
    /\ UNCHANGED <<rows, writer>>
    /\ SqliteUnchanged

\* one pass of the loop: the insert of the row of i, executed on the transaction
Insert(c) ==
    /\ spc = "sqlite"
    /\ txs[c].pc = "counted"
    /\ txs[c].i < txs[c].index
    /\ writer \in {0, c}
    /\ IF index_is_key /\ RowOf(txs[c].i).index \in Indices(rows \o txs[c].inserted)
       THEN /\ txs' = [txs EXCEPT ![c] = Rollback(txs[c])]
            /\ writer' = 0
       ELSE /\ txs' = [txs EXCEPT ![c].inserted = Append(txs[c].inserted, RowOf(txs[c].i)),
                                 ![c].i = txs[c].i + 1]
            /\ writer' = c
    /\ UNCHANGED rows
    /\ SqliteUnchanged

\* tx.commit()
Commit(c) ==
    /\ spc = "sqlite"
    /\ txs[c].pc = "counted"
    /\ txs[c].i >= txs[c].index
    /\ rows' = rows \o txs[c].inserted
    /\ writer' = IF writer = c THEN 0 ELSE writer
    /\ txs' = [txs EXCEPT ![c].pc = "done"]
    /\ SqliteUnchanged

\* key_store.derive_keys_until(index)
DeriveKeysUntil ==
    /\ spc = "trait"
    /\ \E index \in 0..MaxIndex :
          LET after == derive_keys_until(
                           [next_derivation_index |-> next_derivation_index,
                            derive_keys_calls |-> derive_keys_calls], index)
          IN  /\ Len(after.derive_keys_calls) <= MaxCalls
              /\ until_index' = index
              /\ next_derivation_index' = after.next_derivation_index
              /\ derive_keys_calls' = after.derive_keys_calls
    /\ UNCHANGED <<derivations, requested, target, rows, txs, writer, index_is_key, spc,
                   node, codecVars, layerVars, offerVars, sslVars, netVars>>

NextStores ==
    \/ SimpleDeriveToIndex
    \/ \E c \in Callers : Begin(c)
    \/ \E c \in Callers : Count(c)
    \/ \E c \in Callers : Insert(c)
    \/ \E c \in Callers : Commit(c)
    \/ DeriveKeysUntil

SpecStores == InitStores /\ [][NextStores]_vars

(***************************************************************************)
(* Claims about the key stores.                                            *)
(***************************************************************************)
\* the keys of the indices 0..n-1, in ascending order
KeysUpTo(n) == [k \in 1..n |-> DerivedKey(k - 1)]

\* the callers of the sqlite store that have returned from derive_to_index
Done == {c \in Callers : txs[c].pc = "done"}

\* the sqlite store has served exactly one call, and no other call has begun
OnlyCall(c) ==
    /\ spc = "sqlite"
    /\ txs[c].pc = "done"
    /\ \A o \in Callers \ {c} : txs[o].pc = "idle"

\* C21: on a freshly created store, derive_to_index(n) leaves exactly n
\* derivations, those of the indices 0..n-1, enumerated in ascending order of
\* index: the key of index i is at position i.  For the simple store the
\* state is the one after the first target requested; for the sqlite store
\* it is the one after one call has committed while no other has begun.
C21_FreshStoreDerivesInOrder ==
    /\ (spc = "simple" /\ requested = {target}) =>
          /\ SimpleDerivationStore_count(derivations) = target
          /\ \A i \in 0..(target - 1) :
                /\ SimpleDerivationStore_public_key(derivations, i) = DerivedKey(i)
                /\ SimpleDerivationStore_puzzle_hash(derivations, i)
                      = standard_puzzle_hash(DerivedKey(i))
    /\ \A c \in Callers :
          OnlyCall(c) =>
             /\ CountQuery(rows) = txs[c].index
             /\ public_keys(rows) = KeysUpTo(txs[c].index)
             /\ \A k \in 1..Len(rows) : rows[k].index = k - 1

C21_Witness ==
    \E c \in Callers : OnlyCall(c) /\ txs[c].index >= 2 /\ Len(rows) >= 2

(***************************************************************************)
(* load_ssl_cert over a file system of two paths.  A file is absent, or    *)
(* present with its contents and with whether reading it succeeds.         *)
(* ChiaCertificate::generate and the two writes are the environment's:     *)
(* generate fails or yields a fresh pair, a write fails or succeeds.       *)
(***************************************************************************)
MaxLoads == 2

File(contents, readable) == [exists |-> TRUE, readable |-> readable, contents |-> contents]

\* fs::read_to_string(path)
read_to_string(fs, path) ==
    IF ~fs[path].exists THEN IoError("NotFound")
    ELSE IF ~fs[path].readable THEN IoError("PermissionDenied")
    ELSE Ok(fs[path].contents)

\* fs::write(path, contents): the file is created or replaced, permissions kept
write(fs, path, contents, succeeds) ==
    IF succeeds
    THEN Ok([fs EXCEPT ![path] =
                File(contents, IF fs[path].exists THEN fs[path].readable ELSE TRUE)])
    ELSE IoError("PermissionDenied")

CertPems == <<"generated_cert_1", "generated_cert_2">>
KeyPems == <<"generated_key_1", "generated_key_2">>

\* ChiaCertificate::generate(): the pair number g, or an error for g = 0
ChiaCertificate_generate(g) ==
    IF g = 0 THEN Err([kind |-> "Ssl"])
    ELSE Ok([cert_pem |-> CertPems[g], key_pem |-> KeyPems[g]])

\* the closure of or_else: generate, write both files, return the new pair
GenerateAndWrite(fs, g, w1, w2) ==
    LET cert == ChiaCertificate_generate(g)
    IN  IF ~cert.ok THEN [files |-> fs, result |-> cert]
        ELSE LET first == write(fs, "cert_path", cert.v.cert_pem, w1)
             IN  IF ~first.ok THEN [files |-> fs, result |-> first]
                 ELSE LET second == write(first.v, "key_path", cert.v.key_pem, w2)
                      IN  IF ~second.ok THEN [files |-> first.v, result |-> second]
                          ELSE [files |-> second.v, result |-> cert]

\* load_ssl_cert(cert_path, key_path): the files afterwards and the result
load_ssl_cert(fs, g, w1, w2) ==
    LET cert == read_to_string(fs, "cert_path")
        key == read_to_string(fs, "key_path")
    IN  IF cert.ok /\ key.ok
        THEN [files |-> fs, result |-> Ok([cert_pem |-> cert.v, key_pem |-> key.v])]
        ELSE GenerateAndWrite(fs, g, w1, w2)

StoredPems == {"stored_pem_a", "stored_pem_b"}
FilesOnDisk == {NoFile} \cup {File(c, r) : c \in StoredPems, r \in BOOLEAN}

InitSsl ==
    /\ files \in [{"cert_path", "key_path"} -> FilesOnDisk]
    /\ certificate = NoValue
    /\ loads = 0
    /\ cpc = "ready"
    /\ node = Nil
    /\ InitCodecIdle
    /\ InitLayerIdle
    /\ InitOfferIdle
    /\ InitStoresIdle
    /\ InitNetworkIdle

\* load_ssl_cert(cert_path, key_path)
LoadSslCert ==
    /\ cpc \in {"ready", "loaded"}
    /\ loads < MaxLoads
    /\ \E g \in 0..Len(CertPems), w1 \in BOOLEAN, w2 \in BOOLEAN :
          LET after == load_ssl_cert(files, g, w1, w2)
          IN  /\ files' = after.files
              /\ certificate' = after.result
    /\ loads' = loads + 1
    /\ cpc' = "loaded"
    /\ UNCHANGED <<node, codecVars, layerVars, offerVars, storeVars, netVars>>

NextSsl == LoadSslCert

SpecSsl == InitSsl /\ [][NextSsl]_vars

\* the certificate file exists and reading it succeeds
CertificateReadable == files.cert_path.exists /\ files.cert_path.readable

\* C22: load_ssl_cert creates a certificate only when one does not exist
\* already: when the file at cert_path exists and is readable, the call
\* returns its contents as cert_pem and leaves that file as it was; and the
\* files are written only when no certificate file is on disk.
C22_CreatesOnlyWhenMissing ==
    [][loads' # loads =>
          /\ CertificateReadable =>
                /\ certificate'.ok
                /\ certificate'.v.cert_pem = files.cert_path.contents
                /\ files'.cert_path = files.cert_path
          /\ files' # files => ~files.cert_path.exists]_vars

\* the greater of two targets
MaxOf(a, b) == IF a >= b THEN a ELSE b

\* C23: under any interleaving of two concurrent derive_to_index calls on
\* one pool, no index is inserted twice, the indices are contiguous from 0,
\* neither call fails, once both calls have returned the indices are exactly
\* 0..max(n1, n2) - 1, and the count that bounds a call's insert loop is
\* still the number of rows of the table when its transaction inserts.
C23_ConcurrentDerivationsInsertOnce ==
    spc = "sqlite" =>
       /\ \A j, k \in 1..Len(rows) : j # k => rows[j].index # rows[k].index
       /\ Indices(rows) = 0..(Len(rows) - 1)
       /\ \A c \in Callers : txs[c].pc # "failed"
       /\ Done = Callers =>
             Indices(rows) = 0..(MaxOf(txs[1].index, txs[2].index) - 1)
       /\ \A c \in Callers :
             (txs[c].pc = "counted" /\ txs[c].i < txs[c].index /\ writer \in {0, c})
                => txs[c].count = CountQuery(rows)

\* the greatest target requested so far, 0 when there was none
MaxRequested == SetMax(requested \cup {0})

\* count() is the greatest target requested so far, and the derivation of
\* index i is at position i
CountIsMaxRequested ==
    spc = "simple" =>
       /\ SimpleDerivationStore_count(derivations) = MaxRequested
       /\ \A i \in 0..(MaxRequested - 1) :
             /\ SimpleDerivationStore_public_key(derivations, i) = DerivedKey(i)
             /\ SimpleDerivationStore_puzzle_hash(derivations, i)
                   = standard_puzzle_hash(DerivedKey(i))

\* a call with a target of at most count() changes nothing, and no call
\* removes, reorders or replaces a derivation
DerivationsOnlyGrow ==
    spc = "simple" =>
       /\ target' <= SimpleDerivationStore_count(derivations)
             => derivations' = derivations
       /\ \A i \in 0..(SimpleDerivationStore_count(derivations) - 1) :
             /\ SimpleDerivationStore_public_key(derivations', i)
                   = SimpleDerivationStore_public_key(derivations, i)
             /\ SimpleDerivationStore_puzzle_hash(derivations', i)
                   = SimpleDerivationStore_puzzle_hash(derivations, i)

\* C24: after any sequence of derive_to_index calls on the simple store,
\* count() is the greatest target requested so far (0 when there was none);
\* a call with a target of at most count() changes nothing; and no call
\* removes, reorders or replaces a derivation: public_key(i) and
\* puzzle_hash(i) of every index derived before stay what they were.
C24_SimpleStoreIsMonotone ==
    []CountIsMaxRequested /\ [][DerivationsOnlyGrow]_vars

C24_Witness ==
    /\ spc = "simple"
    /\ Cardinality(requested) >= 2
    /\ target < SimpleDerivationStore_count(derivations)
    /\ SimpleDerivationStore_count(derivations) >= 2

\* C25: derive_keys_until(index) never decreases next_derivation_index and
\* never underflows: with index below next_derivation_index it calls
\* nothing and changes nothing; otherwise it calls derive_keys exactly once,
\* with the count index - next_derivation_index, so that afterwards
\* next_derivation_index is the greater of its previous value and index.
C25_DeriveKeysUntilReachesIndex ==
    [][spc = "trait" =>
          /\ next_derivation_index' >= next_derivation_index
          /\ until_index' < next_derivation_index =>
                /\ derive_keys_calls' = derive_keys_calls
                /\ next_derivation_index' = next_derivation_index
          /\ until_index' >= next_derivation_index =>
                /\ until_index' - next_derivation_index >= 0
                /\ derive_keys_calls' =
                      Append(derive_keys_calls, until_index' - next_derivation_index)
          /\ next_derivation_index' = MaxOf(next_derivation_index, until_index')]_vars

C25_Witness ==
    /\ spc = "trait"
    /\ Len(derive_keys_calls) >= 2
    /\ next_derivation_index >= 2
    /\ until_index < next_derivation_index

\* C26: compress_offer writes a version prefix that decompress_offer accepts:
\* the version it selects lies in MIN_VERSION..MAX_VERSION, so that
\* decompress_offer of what compress_offer wrote fails neither with
\* UnsupportedVersion nor with MissingVersionPrefix, and returns a spend
\* bundle equal to the one compressed.
C26_CompressOfferIsAccepted ==
    /\ opc \in {"offer", "bundled"} =>
          /\ version \in MIN_VERSION..MAX_VERSION
          /\ Len(packed) >= 2
          /\ from_be_bytes(packed) = version
    /\ opc = "bundled" => unpacked.res = Ok(reveals)

C26_Witness ==
    /\ opc = "bundled"
    /\ Len(reveals) = 2
    /\ reveals[1] = CAT_PUZZLE
    /\ unpacked.res.ok

(***************************************************************************)
(* RunTail against CreateCoin.                                             *)
(***************************************************************************)
\* the variants of CatCondition with RunTail tried first
CatConditionRunTailFirst == <<CatCondition[2], CatCondition[1]>>

\* the tree decodes as Condition::CreateCoin
DecodesAsCreateCoin(n) ==
    ConditionFromClvm(n).ok /\ ConditionFromClvm(n).v.variant = "CreateCoin"

\* C27: no tree decodes both as RunTail and as Condition::CreateCoin, so the
\* result of decoding a CatCondition is the same whichever of Normal and
\* RunTail is tried first: a coin creation decodes as Normal and never as
\* RunTail, a RunTail list decodes as RunTail and never as a coin creation.
C27_RunTailAndCreateCoinDisjoint ==
    LET inOrder == RawFromClvm(CatCondition, node)
        reversed == RawFromClvm(CatConditionRunTailFirst, node)
    IN  /\ ~(RunTailFromClvm(node).ok /\ DecodesAsCreateCoin(node))
        /\ inOrder.ok = reversed.ok
        /\ inOrder.ok => inOrder.v = reversed.v
        /\ DecodesAsCreateCoin(node) => (inOrder.ok /\ inOrder.v.variant = "Normal")
        /\ RunTailFromClvm(node).ok =>
              /\ inOrder.ok /\ inOrder.v.variant = "RunTail"
              /\ ~ConditionFromClvm(node).ok

\* a list with both markers was decoded as a CatCondition, to RunTail
C27_Witness ==
    /\ pc = "decoded"
    /\ decoded.type = "CatCondition"
    /\ RunTailFromClvm(node).ok
    /\ decoded.res.ok
    /\ decoded.res.v.variant = "RunTail"
    /\ ~DecodesAsCreateCoin(node)

(***************************************************************************)
(* Network::lookup_all.  The resolver is the environment's: each name of   *)
(* the model resolves to some addresses, all on the port asked for, or     *)
(* fails.  lookup_all awaits one lookup_host after the other; lookup holds *)
(* its position, the addresses gathered, and the names asked so far.       *)
(***************************************************************************)
MaxIntroducers == 3

\* the port lookup_host asks the resolver for
RESOLUTION_PORT == 80
\* default_mainnet and default_testnet11
DefaultPorts == {8444, 58444}

SocketAddr(ip, port) == [ip |-> ip, port |-> port]

Introducers == {"two.example", "one.example", "none.example", "fails.example"}

\* tokio::net::lookup_host(host:port)
tokio_lookup_host(host, port) ==
    CASE host = "two.example" -> Ok(<<SocketAddr("10.0.0.1", port), SocketAddr("10.0.0.2", port)>>)
      [] host = "one.example" -> Ok(<<SocketAddr("10.0.1.1", port)>>)
      [] host = "none.example" -> Ok(<<>>)
      [] OTHER -> IoError("Other")

\* the addresses as the resolver gave them, on the port asked for
lookup_host_resolved_port(self, dns_introducer) ==
    tokio_lookup_host(dns_introducer, RESOLUTION_PORT)

\* self.lookup_host(dns_introducer)
lookup_host(self, dns_introducer) ==
    LET addrs == tokio_lookup_host(dns_introducer, RESOLUTION_PORT)
    IN  IF ~addrs.ok THEN addrs
        ELSE Ok([k \in 1..Len(addrs.v) |-> SocketAddr(addrs.v[k].ip, self.default_port)])

InitNetwork ==
    /\ network \in [default_port : DefaultPorts,
                    dns_introducers : SeqsUpTo(Introducers, MaxIntroducers)]
    /\ lookup = NoValue
    /\ npc = "ready"
    /\ node = Nil
    /\ InitCodecIdle
    /\ InitLayerIdle
    /\ InitOfferIdle
    /\ InitStoresIdle
    /\ InitSslIdle

NetworkUnchanged ==
    UNCHANGED <<network, node, codecVars, layerVars, offerVars, storeVars, sslVars>>

\* network.lookup_all() is called: let mut result = Vec::new()
LookupAll ==
    /\ npc = "ready"
    /\ lookup' = [next |-> 1, result |-> <<>>, queried |-> <<>>, ret |-> NoValue]
    /\ npc' = "looking"
    /\ NetworkUnchanged

\* one pass of the loop: result.extend(self.lookup_host(dns_introducer).await?)
LookupHost ==
    /\ npc = "looking"
    /\ lookup.next <= Len(network.dns_introducers)
    /\ LET dns_introducer == network.dns_introducers[lookup.next]
           addrs == lookup_host(network, dns_introducer)
       IN  IF addrs.ok
           THEN /\ lookup' = [lookup EXCEPT !.next = lookup.next + 1,
                                            !.result = lookup.result \o addrs.v,
                                            !.queried = Append(lookup.queried, dns_introducer)]
                /\ npc' = "looking"
           ELSE /\ lookup' = [lookup EXCEPT !.result = <<>>,
                                            !.queried = Append(lookup.queried, dns_introducer),
                                            !.ret = addrs]
                /\ npc' = "returned"
    /\ NetworkUnchanged

\* the loop is over: Ok(result)
LookupAllReturns ==
    /\ npc = "looking"
    /\ lookup.next > Len(network.dns_introducers)
    /\ lookup' = [lookup EXCEPT !.ret = Ok(lookup.result)]
    /\ npc' = "returned"
    /\ NetworkUnchanged

NextNetwork ==
    \/ LookupAll
    \/ LookupHost
    \/ LookupAllReturns

SpecNetwork == InitNetwork /\ [][NextNetwork]_vars

\* the positions of the introducers whose resolution fails
Failing == {k \in 1..Len(network.dns_introducers) :
               ~tokio_lookup_host(network.dns_introducers[k], RESOLUTION_PORT).ok}

\* the addresses of the introducers, in introducer order, on default_port
RECURSIVE AddressesOf(_, _)
AddressesOf(names, port) ==
    IF names = <<>> THEN <<>>
    ELSE LET addrs == tokio_lookup_host(Head(names), RESOLUTION_PORT).v
         IN  [k \in 1..Len(addrs) |-> SocketAddr(addrs[k].ip, port)]
                \o AddressesOf(Tail(names), port)

\* the least element of a set of positions
SetMin(S) == CHOOSE m \in S : \A o \in S : m <= o

\* C28: lookup_all asks the introducers one at a time in list order; when a
\* lookup fails it returns that error, with none of the addresses gathered
\* before, and asks no later introducer; when all succeed the result is each
\* introducer's addresses one after the other in introducer order, every
\* address on default_port and none on the port used for resolution.
C28_LookupAllOrderedAllOrNothing ==
    npc \in {"looking", "returned"} =>
       /\ lookup.queried = SubSeq(network.dns_introducers, 1, Len(lookup.queried))
       /\ npc = "returned" =>
             /\ lookup.ret.ok <=> Failing = {}
             /\ ~lookup.ret.ok =>
                   /\ lookup.ret = IoError("Other")
                   /\ Len(lookup.queried) = SetMin(Failing)
                   /\ lookup.result = <<>>
             /\ lookup.ret.ok =>
                   /\ lookup.queried = network.dns_introducers
                   /\ lookup.ret.v = AddressesOf(network.dns_introducers, network.default_port)
                   /\ \A k \in 1..Len(lookup.ret.v) :
                         /\ lookup.ret.v[k].port = network.default_port
                         /\ lookup.ret.v[k].port # RESOLUTION_PORT

\* three introducers were asked and their addresses returned in order
C28_Witness ==
    /\ npc = "returned"
    /\ lookup.ret.ok
    /\ Len(network.dns_introducers) >= 2
    /\ network.dns_introducers[1] = "one.example"
    /\ network.dns_introducers[2] = "two.example"
    /\ Len(lookup.ret.v) >= 3

====
